---- MODULE Spec2Model ----
(***************************************************************************)
(* Kernel selection and grouped argument marshalling of the FBGEMM gen_ai  *)
(* CK extensions: the rowwise fp8 operators, their lookup tables and       *)
(* heuristics, the grouped fp8/bf16 operators, the tuning cache and the    *)
(* device kernel set_kernel_args that writes one argument record per       *)
(* nonzero group.                                                          *)
(***************************************************************************)
EXTENDS Integers, Sequences, FiniteSets, TLC

VARIABLES
  op,       \* the entry point being called
  args,     \* its arguments
  phase,    \* "called" before the entry point ran, "returned" after
  ret,      \* what the call produced: its result and, in program order, the
            \* selection and device events it made
  launch,                 \* the argument-setup kernel the call enqueued
  pc,                     \* where each thread of that kernel is
  non_zero_counter,       \* its __shared__ counter
  kernel_args,            \* the argument buffer it writes, slot by slot
  non_zero_idx,           \* the slot each thread got from the counter, or -1
  output_memory,          \* the output buffer of a dynamic grouped operator
  FBGEMM_AUTOTUNE_ENABLE, \* whether the environment defines the variable
  cache,                  \* the tuning cache of the fp8 grouped operators
  calls,                  \* the number of calls made so far
  history,                \* the calls that returned before: arguments and result
  hash_table,             \* the pruned hash table of the CPU embedding operators
  output_data             \* for each output segment of the embedding forward
                          \* kernel, the chunks that wrote it

device ==
  <<launch, pc, non_zero_counter, kernel_args, non_zero_idx, output_memory>>

vars ==
  <<op, args, phase, ret, launch, pc, non_zero_counter, kernel_args,
    non_zero_idx, output_memory, FBGEMM_AUTOTUNE_ENABLE, cache, calls,
    history, hash_table, output_data>>

embedding == <<hash_table, output_data>>

(***************************************************************************)
(* Kernel catalog and lookup tables                                        *)
(***************************************************************************)

\* The kernel catalog: every kernel the rowwise manifest declares.
fp8fp8bf16_rowwise_kernel_manifest ==
  {
    "fp8fp8bf16_rowwise_64x16x16x128_16x16_1x1_8x8x1_8x8x1_1x16x1x4_4x4x1_1x1_interwave_v2",
    "fp8fp8bf16_rowwise_64x16x16x128_16x16_1x1_8x8x1_8x8x1_1x16x1x4_4x4x1_1x1_interwave_v1",
    "fp8fp8bf16_rowwise_64x16x16x64_16x16_1x1_4x16x1_4x16x1_1x16x1x4_4x4x1_1x1_interwave_v2",
    "fp8fp8bf16_rowwise_64x16x16x512_16x16_1x1_8x8x1_8x8x1_1x16x1x4_4x4x1_1x1_interwave_v2",
    "fp8fp8bf16_rowwise_64x16x16x512_16x16_1x1_32x2x1_32x2x1_1x16x1x4_4x4x1_1x1_interwave_v2",
    "fp8fp8bf16_rowwise_128x16x32x128_16x16_1x1_8x16x1_8x16x1_1x16x1x8_4x4x1_1x1_intrawave_v2",
    "fp8fp8bf16_rowwise_128x16x32x128_16x16_1x1_8x16x1_8x16x1_1x16x1x8_4x4x1_1x1_intrawave_v1",
    "fp8fp8bf16_rowwise_64x16x16x256_16x16_1x1_16x4x1_16x4x1_1x4x1x16_4x4x1_1x1_intrawave_v1",
    "fp8fp8bf16_rowwise_128x128x16x128_16x16_4x1_8x16x1_8x16x1_1x16x1x8_8x8x1_1x1_interwave_v2",
    "fp8fp8bf16_rowwise_128x16x32x128_16x16_1x1_8x16x1_8x16x1_1x16x1x8_4x4x1_1x1_interwave_v2",
    "fp8fp8bf16_rowwise_128x16x32x512_16x16_1x1_8x16x1_8x16x1_1x16x1x8_4x4x1_1x1_interwave_v2",
    "fp8fp8bf16_rowwise_128x32x16x128_16x16_1x1_8x16x1_8x16x1_1x16x1x8_2x2x1_1x1_interwave_v2",
    "fp8fp8bf16_rowwise_128x32x16x128_16x16_1x1_8x16x1_8x16x1_1x16x1x8_2x2x1_1x1_interwave_v1",
    "fp8fp8bf16_rowwise_128x32x16x128_16x16_1x1_8x16x1_8x16x1_1x16x1x8_2x2x1_1x1_interwave_v2_16",
    "fp8fp8bf16_rowwise_128x32x64x128_32x32_1x1_8x16x1_8x16x1_1x16x1x8_8x8x1_1x1_intrawave_v2",
    "fp8fp8bf16_rowwise_128x32x64x128_32x32_1x1_8x16x1_8x16x1_1x16x1x8_8x8x1_1x1_interwave_v2",
    "fp8fp8bf16_rowwise_256x128x128x128_32x32_2x2_8x32x1_8x32x1_1x32x1x8_8x8x1_1x1_interwave_v1",
    "fp8fp8bf16_rowwise_256x128x128x64_32x32_2x2_4x64x1_4x64x1_1x32x1x8_8x8x1_1x1_intrawave_v4",
    "fp8fp8bf16_rowwise_256x256x256x64_32x32_4x4_4x64x1_4x64x1_1x32x1x8_8x8x1_1x1_intrawave_v4",
    "fp8fp8bf16_rowwise_256x128x128x128_32x32_2x2_8x32x1_8x32x1_1x32x1x8_8x8x1_1x1_intrawave_v3",
    "fp8fp8bf16_rowwise_256x128x128x128_32x32_2x2_8x32x1_8x32x1_1x32x1x8_8x8x1_1x1_intrawave_v5",
    "fp8fp8bf16_rowwise_256x224x256x128_16x16_7x8_8x32x1_8x32x1_1x32x1x8_8x8x1_1x2_intrawave_v3",
    "fp8fp8bf16_rowwise_256x256x224x128_16x16_8x7_8x32x1_8x32x1_1x64x1x4_8x8x1_2x1_intrawave_v3",
    "fp8fp8bf16_rowwise_256x64x64x128_32x32_1x1_8x32x1_8x32x1_1x32x1x8_8x8x1_1x1_intrawave_v3",
    "fp8fp8bf16_rowwise_256x128x64x128_32x32_2x1_8x32x1_8x32x1_1x32x1x8_8x8x1_1x1_intrawave_v3",
    "fp8fp8bf16_rowwise_128x64x32x128_32x32_1x1_8x16x1_8x16x1_1x16x1x8_4x4x1_1x1_intrawave_v2",
    "fp8fp8bf16_rowwise_128x32x128x128_32x32_1x2_8x16x1_8x16x1_1x16x1x8_8x8x1_1x1_interwave_v2",
    "fp8fp8bf16_rowwise_256x256x256x128_16x16_8x8_8x32x1_8x32x1_1x32x1x8_8x8x1_1x2_intrawave_v3",
    "fp8fp8bf16_rowwise_256x256x256x64_16x16_8x8_4x64x1_4x64x1_1x32x1x8_8x8x1_1x2_intrawave_v3",
    "fp8fp8bf16_rowwise_128x128x32x128_32x32_2x1_8x16x1_8x16x1_1x16x1x8_4x4x1_1x1_intrawave_v2",
    "fp8fp8bf16_rowwise_256x256x192x128_32x32_4x3_8x32x1_8x32x1_1x32x1x8_8x8x1_1x1_intrawave_v3",
    "fp8fp8bf16_rowwise_256x128x160x128_32x32_1x5_8x32x1_8x32x1_1x64x1x4_8x8x1_1x1_intrawave_v3",
    "fp8fp8bf16_rowwise_256x128x192x128_32x32_2x3_8x32x1_8x32x1_1x32x1x8_8x8x1_1x1_intrawave_v3",
    "fp8fp8bf16_rowwise_256x192x128x128_16x16_6x4_8x32x1_8x32x1_1x32x1x8_8x8x1_2x2_intrawave_v3",
    "fp8fp8bf16_rowwise_256x192x256x128_16x16_6x8_8x32x1_8x32x1_1x32x1x8_8x8x1_2x2_intrawave_v3",
    "fp8fp8bf16_rowwise_256x256x96x128_32x32_2x3_8x32x1_8x32x1_1x64x1x4_8x8x1_2x1_intrawave_v3",
    "fp8fp8bf16_rowwise_256x256x128x128_32x32_4x2_8x32x1_8x32x1_1x32x1x8_8x8x1_1x1_intrawave_v3",
    "fp8fp8bf16_rowwise_128x16x32x128_16x16_1x1_8x16x1_8x16x1_1x16x1x8_4x4x1_1x1_interwave_v2_8",
    "fp8fp8bf16_rowwise_128x16x32x512_16x16_1x1_32x4x1_32x4x1_1x16x1x8_4x4x1_1x1_intrawave_v2",
    "fp8fp8bf16_rowwise_256x64x128x256_32x32_1x2_16x16x1_16x16x1_1x32x1x8_8x8x1_1x1_intrawave_v3",
    "fp8fp8bf16_rowwise_256x128x96x256_32x32_1x3_16x16x1_16x16x1_1x64x1x4_8x8x1_1x1_intrawave_v3",
    "fp8fp8bf16_rowwise_256x128x128x256_32x32_2x2_16x16x1_16x16x1_1x32x1x8_8x8x1_1x1_intrawave_v3",
    "fp8fp8bf16_rowwise_256x64x192x256_32x32_1x3_16x16x1_16x16x1_1x32x1x8_8x8x1_1x1_intrawave_v3",
    "fp8fp8bf16_rowwise_256x256x96x128_16x16_8x3_8x32x1_8x32x1_1x64x1x4_8x8x1_2x1_intrawave_v3",
    "fp8fp8bf16_rowwise_256x256x128x128_16x16_8x4_8x32x1_8x32x1_1x32x1x8_8x8x1_1x2_intrawave_v3",
    "fp8fp8bf16_rowwise_256x256x160x128_16x16_8x5_8x32x1_8x32x1_1x64x1x4_8x8x1_2x1_intrawave_v3",
    "fp8fp8bf16_rowwise_256x128x256x128_32x32_2x4_8x32x1_8x32x1_1x32x1x8_8x8x1_1x1_intrawave_v3",
    "fp8fp8bf16_rowwise_256x256x192x128_16x16_8x6_8x32x1_8x32x1_1x32x1x8_8x8x1_1x2_intrawave_v3",
    "fp8fp8bf16_rowwise_128x16x32x512_16x16_1x1_32x4x1_32x4x1_1x16x1x8_4x4x1_1x1_intrawave_v2_2",
    "fp8fp8bf16_rowwise_256x32x64x512_16x16_1x2_32x8x1_32x8x1_1x32x1x8_8x8x1_1x2_intrawave_v3",
    "fp8fp8bf16_rowwise_64x16x16x256_16x16_1x1_16x4x1_16x4x1_1x16x1x4_4x4x1_1x1_intrawave_v1",
    "fp8fp8bf16_rowwise_256x32x128x256_32x32_1x1_16x16x1_16x16x1_1x32x1x8_8x8x1_1x1_intrawave_v3",
    "fp8fp8bf16_rowwise_128x16x32x256_16x16_1x1_16x8x1_16x8x1_1x16x1x8_4x4x1_1x1_intrawave_v1",
    "fp8fp8bf16_rowwise_256x64x64x512_32x32_1x1_32x8x1_32x8x1_1x32x1x8_8x8x1_1x1_intrawave_v3",
    "fp8fp8bf16_rowwise_128x32x16x256_16x16_1x1_16x8x1_16x8x1_1x32x1x4_4x4x1_1x1_interwave_v1",
    "fp8fp8bf16_rowwise_256x64x96x256_16x16_2x3_16x16x1_16x16x1_1x64x1x4_8x8x1_2x1_intrawave_v3",
    "fp8fp8bf16_rowwise_128x16x32x512_16x16_1x1_32x4x1_32x4x1_1x16x1x8_4x4x1_1x1_interwave_v2",
    "fp8fp8bf16_rowwise_128x32x16x512_16x16_1x1_32x4x1_32x4x1_1x32x1x4_4x4x1_1x1_interwave_v2",
    "fp8fp8bf16_rowwise_128x32x16x512_16x16_1x1_32x4x1_32x4x1_1x32x1x4_4x4x1_1x1_intrawave_v2",
    "fp8fp8bf16_rowwise_256x16x64x512_16x16_1x1_32x8x1_32x8x1_1x16x1x16_4x4x1_1x1_intrawave_v3",
    "fp8fp8bf16_rowwise_128x16x32x512_16x16_1x1_32x4x1_32x4x1_1x16x1x8_4x4x1_1x1_interwave_v2_2",
    "fp8fp8bf16_rowwise_256x64x256x128_32x32_1x4_8x32x1_8x32x1_1x32x1x8_8x8x1_1x1_intrawave_v3",
    "fp8fp8bf16_rowwise_256x64x192x128_32x32_1x3_8x32x1_8x32x1_1x32x1x8_8x8x1_1x1_intrawave_v3",
    "fp8fp8bf16_rowwise_256x16x64x128_16x16_1x1_16x16x1_8x32x1_1x16x1x16_4x4x1_1x1_intrawave_v2_8",
    "fp8fp8bf16_rowwise_128x16x32x128_16x16_1x1_8x16x1_8x16x1_1x16x1x8_4x4x1_1x1_interwave_v2_4",
    "fp8fp8bf16_rowwise_256x64x128x128_32x32_1x2_8x32x1_8x32x1_1x32x1x8_8x8x1_1x1_intrawave_v3",
    "fp8fp8bf16_rowwise_128x64x32x128_32x32_1x1_8x16x1_8x16x1_1x16x1x8_4x4x1_1x1_interwave_v2",
    "fp8fp8bf16_rowwise_128x16x32x128_16x16_1x1_8x16x1_8x16x1_1x16x1x8_4x4x1_1x1_intrawave_v2_8",
    "fp8fp8bf16_rowwise_256x64x16x512_16x16_1x1_32x8x1_32x8x1_1x64x1x4_4x4x1_1x1_intrawave_v2",
    "fp8fp8bf16_rowwise_256x192x224x128_16x16_6x7_8x32x1_8x32x1_1x64x1x4_8x8x1_2x1_intrawave_v3",
    "fp8fp8bf16_rowwise_256x160x256x128_16x16_5x8_8x32x1_8x32x1_1x32x1x8_8x8x1_1x2_intrawave_v3",
    "fp8fp8bf16_rowwise_256x160x96x128_16x16_5x3_8x32x1_8x32x1_1x32x1x8_4x4x1_1x1_intrawave_v3",
    "fp8fp8bf16_rowwise_256x192x192x128_16x16_6x6_8x32x1_8x32x1_1x32x1x8_8x8x1_1x2_intrawave_v3",
    "fp8fp8bf16_rowwise_256x96x128x128_16x16_3x4_8x32x1_8x32x1_1x32x1x8_8x8x1_1x2_intrawave_v3",
    "fp8fp8bf16_rowwise_256x128x96x128_16x16_4x3_8x32x1_8x32x1_1x64x1x4_8x8x1_2x1_intrawave_v3",
    "fp8fp8bf16_rowwise_256x192x256x128_16x16_6x8_8x32x1_8x32x1_1x32x1x8_8x8x1_1x2_intrawave_v3",
    "fp8fp8bf16_rowwise_256x128x128x128_16x16_4x4_8x32x1_8x32x1_1x32x1x8_8x8x1_1x2_intrawave_v3",
    "fp8fp8bf16_rowwise_256x224x160x128_16x16_7x5_8x32x1_8x32x1_1x32x1x8_4x4x1_1x1_intrawave_v3",
    "fp8fp8bf16_rowwise_256x128x64x256_32x32_2x1_16x16x1_16x16x1_1x32x1x8_8x8x1_1x1_intrawave_v3",
    "fp8fp8bf16_rowwise_256x80x128x256_16x16_5x2_16x16x1_16x16x1_1x16x1x16_8x8x1_1x2_intrawave_v3",
    "fp8fp8bf16_rowwise_256x16x64x512_16x16_1x1_32x8x1_32x8x1_1x16x1x16_4x4x1_1x1_intrawave_v2",
    "fp8fp8bf16_rowwise_256x160x128x128_16x16_5x4_8x32x1_8x32x1_1x32x1x8_8x8x1_1x2_intrawave_v3",
    "fp8fp8bf16_rowwise_256x224x192x128_16x16_7x6_8x32x1_8x32x1_1x32x1x8_8x8x1_1x2_intrawave_v3",
    "fp8fp8bf16_rowwise_256x128x160x128_16x16_4x5_8x32x1_8x32x1_1x64x1x4_8x8x1_2x1_intrawave_v3"
  }

\* Exact-key table: (padded M, N, K) -> kernel.
rowwise_lookup_dispatch ==
     <<16, 1280, 8192>> :> "fp8fp8bf16_rowwise_128x16x32x128_16x16_1x1_8x16x1_8x16x1_1x16x1x8_4x4x1_1x1_interwave_v2"
  @@ <<32, 1280, 8192>> :> "fp8fp8bf16_rowwise_128x32x16x128_16x16_1x1_8x16x1_8x16x1_1x16x1x8_2x2x1_1x1_interwave_v2"
  @@ <<64, 1280, 8192>> :> "fp8fp8bf16_rowwise_128x32x16x128_16x16_1x1_8x16x1_8x16x1_1x16x1x8_2x2x1_1x1_interwave_v2"
  @@ <<128, 1280, 8192>> :> "fp8fp8bf16_rowwise_128x16x32x128_16x16_1x1_8x16x1_8x16x1_1x16x1x8_4x4x1_1x1_interwave_v2"
  @@ <<16, 8192, 1024>> :> "fp8fp8bf16_rowwise_128x16x32x128_16x16_1x1_8x16x1_8x16x1_1x16x1x8_4x4x1_1x1_intrawave_v2"
  @@ <<32, 8192, 1024>> :> "fp8fp8bf16_rowwise_128x32x16x128_16x16_1x1_8x16x1_8x16x1_1x16x1x8_2x2x1_1x1_interwave_v2"
  @@ <<64, 8192, 1024>> :> "fp8fp8bf16_rowwise_128x32x16x128_16x16_1x1_8x16x1_8x16x1_1x16x1x8_2x2x1_1x1_interwave_v2"
  @@ <<128, 8192, 1024>> :> "fp8fp8bf16_rowwise_256x64x64x128_32x32_1x1_8x32x1_8x32x1_1x32x1x8_8x8x1_1x1_intrawave_v3"
  @@ <<16, 13312, 6656>> :> "fp8fp8bf16_rowwise_64x16x16x256_16x16_1x1_16x4x1_16x4x1_1x4x1x16_4x4x1_1x1_intrawave_v1"
  @@ <<32, 13312, 6656>> :> "fp8fp8bf16_rowwise_128x32x64x128_32x32_1x1_8x16x1_8x16x1_1x16x1x8_8x8x1_1x1_intrawave_v2"
  @@ <<64, 13312, 6656>> :> "fp8fp8bf16_rowwise_256x64x64x128_32x32_1x1_8x32x1_8x32x1_1x32x1x8_8x8x1_1x1_intrawave_v3"
  @@ <<128, 13312, 6656>> :> "fp8fp8bf16_rowwise_256x128x64x128_32x32_2x1_8x32x1_8x32x1_1x32x1x8_8x8x1_1x1_intrawave_v3"
  @@ <<16, 13312, 16384>> :> "fp8fp8bf16_rowwise_64x16x16x512_16x16_1x1_32x2x1_32x2x1_1x16x1x4_4x4x1_1x1_interwave_v2"
  @@ <<32, 13312, 16384>> :> "fp8fp8bf16_rowwise_128x32x64x128_32x32_1x1_8x16x1_8x16x1_1x16x1x8_8x8x1_1x1_interwave_v2"
  @@ <<64, 13312, 16384>> :> "fp8fp8bf16_rowwise_256x64x64x128_32x32_1x1_8x32x1_8x32x1_1x32x1x8_8x8x1_1x1_intrawave_v3"
  @@ <<128, 13312, 16384>> :> "fp8fp8bf16_rowwise_256x128x64x128_32x32_2x1_8x32x1_8x32x1_1x32x1x8_8x8x1_1x1_intrawave_v3"
  @@ <<1024, 13312, 16384>> :> "fp8fp8bf16_rowwise_256x256x224x128_16x16_8x7_8x32x1_8x32x1_1x64x1x4_8x8x1_2x1_intrawave_v3"
  @@ <<2048, 13312, 16384>> :> "fp8fp8bf16_rowwise_256x224x256x128_16x16_7x8_8x32x1_8x32x1_1x32x1x8_8x8x1_1x2_intrawave_v3"
  @@ <<4096, 13312, 16384>> :> "fp8fp8bf16_rowwise_256x256x256x128_16x16_8x8_8x32x1_8x32x1_1x32x1x8_8x8x1_1x2_intrawave_v3"
  @@ <<8192, 13312, 16384>> :> "fp8fp8bf16_rowwise_256x256x256x128_16x16_8x8_8x32x1_8x32x1_1x32x1x8_8x8x1_1x2_intrawave_v3"
  @@ <<16, 16384, 6656>> :> "fp8fp8bf16_rowwise_64x16x16x256_16x16_1x1_16x4x1_16x4x1_1x4x1x16_4x4x1_1x1_intrawave_v1"
  @@ <<32, 16384, 6656>> :> "fp8fp8bf16_rowwise_128x32x64x128_32x32_1x1_8x16x1_8x16x1_1x16x1x8_8x8x1_1x1_intrawave_v2"
  @@ <<64, 16384, 6656>> :> "fp8fp8bf16_rowwise_256x64x64x128_32x32_1x1_8x32x1_8x32x1_1x32x1x8_8x8x1_1x1_intrawave_v3"
  @@ <<128, 16384, 6656>> :> "fp8fp8bf16_rowwise_256x128x64x128_32x32_2x1_8x32x1_8x32x1_1x32x1x8_8x8x1_1x1_intrawave_v3"
  @@ <<1024, 16384, 6656>> :> "fp8fp8bf16_rowwise_256x256x224x128_16x16_8x7_8x32x1_8x32x1_1x64x1x4_8x8x1_2x1_intrawave_v3"
  @@ <<2048, 16384, 6656>> :> "fp8fp8bf16_rowwise_256x256x224x128_16x16_8x7_8x32x1_8x32x1_1x64x1x4_8x8x1_2x1_intrawave_v3"
  @@ <<4096, 16384, 6656>> :> "fp8fp8bf16_rowwise_256x224x256x128_16x16_7x8_8x32x1_8x32x1_1x32x1x8_8x8x1_1x2_intrawave_v3"
  @@ <<8192, 16384, 6656>> :> "fp8fp8bf16_rowwise_256x256x256x128_16x16_8x8_8x32x1_8x32x1_1x32x1x8_8x8x1_1x2_intrawave_v3"
  @@ <<16, 16384, 16384>> :> "fp8fp8bf16_rowwise_64x16x16x512_16x16_1x1_32x2x1_32x2x1_1x16x1x4_4x4x1_1x1_interwave_v2"
  @@ <<32, 16384, 16384>> :> "fp8fp8bf16_rowwise_128x32x64x128_32x32_1x1_8x16x1_8x16x1_1x16x1x8_8x8x1_1x1_interwave_v2"
  @@ <<64, 16384, 16384>> :> "fp8fp8bf16_rowwise_256x64x64x128_32x32_1x1_8x32x1_8x32x1_1x32x1x8_8x8x1_1x1_intrawave_v3"
  @@ <<128, 16384, 16384>> :> "fp8fp8bf16_rowwise_256x128x64x128_32x32_2x1_8x32x1_8x32x1_1x32x1x8_8x8x1_1x1_intrawave_v3"
  @@ <<1536, 3584, 3584>> :> "fp8fp8bf16_rowwise_256x128x160x128_32x32_1x5_8x32x1_8x32x1_1x64x1x4_8x8x1_1x1_intrawave_v3"
  @@ <<8192, 9728, 3584>> :> "fp8fp8bf16_rowwise_256x256x256x128_16x16_8x8_8x32x1_8x32x1_1x32x1x8_8x8x1_1x2_intrawave_v3"
  @@ <<8192, 3584, 9728>> :> "fp8fp8bf16_rowwise_256x256x224x128_16x16_8x7_8x32x1_8x32x1_1x64x1x4_8x8x1_2x1_intrawave_v3"
  @@ <<8192, 3584, 3584>> :> "fp8fp8bf16_rowwise_256x256x192x128_32x32_4x3_8x32x1_8x32x1_1x32x1x8_8x8x1_1x1_intrawave_v3"
  @@ <<4096, 3584, 3584>> :> "fp8fp8bf16_rowwise_256x256x224x128_16x16_8x7_8x32x1_8x32x1_1x64x1x4_8x8x1_2x1_intrawave_v3"
  @@ <<768, 3584, 3584>> :> "fp8fp8bf16_rowwise_256x128x128x128_32x32_2x2_8x32x1_8x32x1_1x32x1x8_8x8x1_1x1_intrawave_v3"
  @@ <<4096, 9728, 3584>> :> "fp8fp8bf16_rowwise_256x256x256x128_16x16_8x8_8x32x1_8x32x1_1x32x1x8_8x8x1_1x2_intrawave_v3"
  @@ <<4096, 3584, 9728>> :> "fp8fp8bf16_rowwise_256x224x256x128_16x16_7x8_8x32x1_8x32x1_1x32x1x8_8x8x1_1x2_intrawave_v3"
  @@ <<7200, 3584, 3584>> :> "fp8fp8bf16_rowwise_256x256x192x128_32x32_4x3_8x32x1_8x32x1_1x32x1x8_8x8x1_1x1_intrawave_v3"
  @@ <<7200, 9728, 3584>> :> "fp8fp8bf16_rowwise_256x256x256x128_16x16_8x8_8x32x1_8x32x1_1x32x1x8_8x8x1_1x2_intrawave_v3"
  @@ <<7200, 3584, 9728>> :> "fp8fp8bf16_rowwise_256x256x192x128_32x32_4x3_8x32x1_8x32x1_1x32x1x8_8x8x1_1x1_intrawave_v3"
  @@ <<3600, 3584, 3584>> :> "fp8fp8bf16_rowwise_256x256x224x128_16x16_8x7_8x32x1_8x32x1_1x64x1x4_8x8x1_2x1_intrawave_v3"
  @@ <<3600, 9728, 3584>> :> "fp8fp8bf16_rowwise_256x256x256x128_16x16_8x8_8x32x1_8x32x1_1x32x1x8_8x8x1_1x2_intrawave_v3"
  @@ <<3600, 3584, 9728>> :> "fp8fp8bf16_rowwise_256x256x224x128_16x16_8x7_8x32x1_8x32x1_1x64x1x4_8x8x1_2x1_intrawave_v3"
  @@ <<1536, 4096, 4096>> :> "fp8fp8bf16_rowwise_256x192x128x128_16x16_6x4_8x32x1_8x32x1_1x32x1x8_8x8x1_2x2_intrawave_v3"
  @@ <<3600, 4096, 4096>> :> "fp8fp8bf16_rowwise_256x192x256x128_16x16_6x8_8x32x1_8x32x1_1x32x1x8_8x8x1_2x2_intrawave_v3"
  @@ <<3600, 11008, 4096>> :> "fp8fp8bf16_rowwise_256x192x256x128_16x16_6x8_8x32x1_8x32x1_1x32x1x8_8x8x1_2x2_intrawave_v3"
  @@ <<3600, 4096, 11008>> :> "fp8fp8bf16_rowwise_256x192x256x128_16x16_6x8_8x32x1_8x32x1_1x32x1x8_8x8x1_2x2_intrawave_v3"
  @@ <<4096, 4096, 4096>> :> "fp8fp8bf16_rowwise_256x224x256x128_16x16_7x8_8x32x1_8x32x1_1x32x1x8_8x8x1_1x2_intrawave_v3"
  @@ <<4096, 11008, 4096>> :> "fp8fp8bf16_rowwise_256x224x256x128_16x16_7x8_8x32x1_8x32x1_1x32x1x8_8x8x1_1x2_intrawave_v3"
  @@ <<4096, 4096, 11008>> :> "fp8fp8bf16_rowwise_256x256x224x128_16x16_8x7_8x32x1_8x32x1_1x64x1x4_8x8x1_2x1_intrawave_v3"
  @@ <<32768, 128, 8192>> :> "fp8fp8bf16_rowwise_256x128x128x128_32x32_2x2_8x32x1_8x32x1_1x32x1x8_8x8x1_1x1_intrawave_v3"
  @@ <<32768, 8192, 1024>> :> "fp8fp8bf16_rowwise_256x128x128x128_32x32_2x2_8x32x1_8x32x1_1x32x1x8_8x8x1_1x1_intrawave_v3"
  @@ <<32768, 8192, 3072>> :> "fp8fp8bf16_rowwise_256x224x256x128_16x16_7x8_8x32x1_8x32x1_1x32x1x8_8x8x1_1x2_intrawave_v3"
  @@ <<32768, 3072, 8192>> :> "fp8fp8bf16_rowwise_256x224x256x128_16x16_7x8_8x32x1_8x32x1_1x32x1x8_8x8x1_1x2_intrawave_v3"
  @@ <<32768, 1024, 8192>> :> "fp8fp8bf16_rowwise_256x224x256x128_16x16_7x8_8x32x1_8x32x1_1x32x1x8_8x8x1_1x2_intrawave_v3"

N_7168_K_8192_dispatch_table ==
     8 :> "fp8fp8bf16_rowwise_128x32x16x512_16x16_1x1_32x4x1_32x4x1_1x32x1x4_4x4x1_1x1_interwave_v2"
  @@ 32 :> "fp8fp8bf16_rowwise_128x32x16x512_16x16_1x1_32x4x1_32x4x1_1x32x1x4_4x4x1_1x1_intrawave_v2"
  @@ 64 :> "fp8fp8bf16_rowwise_256x32x64x512_16x16_1x2_32x8x1_32x8x1_1x32x1x8_8x8x1_1x2_intrawave_v3"
  @@ 128 :> "fp8fp8bf16_rowwise_256x64x64x512_32x32_1x1_32x8x1_32x8x1_1x32x1x8_8x8x1_1x1_intrawave_v3"
  @@ 320 :> "fp8fp8bf16_rowwise_256x64x128x256_32x32_1x2_16x16x1_16x16x1_1x32x1x8_8x8x1_1x1_intrawave_v3"
  @@ 512 :> "fp8fp8bf16_rowwise_256x128x96x256_32x32_1x3_16x16x1_16x16x1_1x64x1x4_8x8x1_1x1_intrawave_v3"
  @@ 576 :> "fp8fp8bf16_rowwise_256x128x128x128_32x32_2x2_8x32x1_8x32x1_1x32x1x8_8x8x1_1x1_intrawave_v3"
  @@ 640 :> "fp8fp8bf16_rowwise_256x128x128x256_32x32_2x2_16x16x1_16x16x1_1x32x1x8_8x8x1_1x1_intrawave_v3"
  @@ 768 :> "fp8fp8bf16_rowwise_256x128x160x128_32x32_1x5_8x32x1_8x32x1_1x64x1x4_8x8x1_1x1_intrawave_v3"
  @@ 1024 :> "fp8fp8bf16_rowwise_256x256x96x128_16x16_8x3_8x32x1_8x32x1_1x64x1x4_8x8x1_2x1_intrawave_v3"
  @@ 1280 :> "fp8fp8bf16_rowwise_256x256x128x128_16x16_8x4_8x32x1_8x32x1_1x32x1x8_8x8x1_1x2_intrawave_v3"
  @@ 1536 :> "fp8fp8bf16_rowwise_256x256x160x128_16x16_8x5_8x32x1_8x32x1_1x64x1x4_8x8x1_2x1_intrawave_v3"
  @@ 2048 :> "fp8fp8bf16_rowwise_256x256x192x128_16x16_8x6_8x32x1_8x32x1_1x32x1x8_8x8x1_1x2_intrawave_v3"
  @@ 2304 :> "fp8fp8bf16_rowwise_256x256x224x128_16x16_8x7_8x32x1_8x32x1_1x64x1x4_8x8x1_2x1_intrawave_v3"
  @@ 2560 :> "fp8fp8bf16_rowwise_256x256x256x128_16x16_8x8_8x32x1_8x32x1_1x32x1x8_8x8x1_1x2_intrawave_v3"
  @@ 3328 :> "fp8fp8bf16_rowwise_256x256x160x128_16x16_8x5_8x32x1_8x32x1_1x64x1x4_8x8x1_2x1_intrawave_v3"
  @@ 4096 :> "fp8fp8bf16_rowwise_256x256x192x128_16x16_8x6_8x32x1_8x32x1_1x32x1x8_8x8x1_1x2_intrawave_v3"
  @@ 4672 :> "fp8fp8bf16_rowwise_256x224x256x128_16x16_7x8_8x32x1_8x32x1_1x32x1x8_8x8x1_1x2_intrawave_v3"
  @@ 4864 :> "fp8fp8bf16_rowwise_256x256x224x128_16x16_8x7_8x32x1_8x32x1_1x64x1x4_8x8x1_2x1_intrawave_v3"
  @@ 5376 :> "fp8fp8bf16_rowwise_256x256x256x128_16x16_8x8_8x32x1_8x32x1_1x32x1x8_8x8x1_1x2_intrawave_v3"
  @@ 6144 :> "fp8fp8bf16_rowwise_256x256x192x128_16x16_8x6_8x32x1_8x32x1_1x32x1x8_8x8x1_1x2_intrawave_v3"
  @@ 7168 :> "fp8fp8bf16_rowwise_256x256x224x128_16x16_8x7_8x32x1_8x32x1_1x64x1x4_8x8x1_2x1_intrawave_v3"
  @@ 8192 :> "fp8fp8bf16_rowwise_256x256x256x128_16x16_8x8_8x32x1_8x32x1_1x32x1x8_8x8x1_1x2_intrawave_v3"

N_8192_K_3584_dispatch_table ==
     8 :> "fp8fp8bf16_rowwise_128x16x32x512_16x16_1x1_32x4x1_32x4x1_1x16x1x8_4x4x1_1x1_interwave_v2"
  @@ 16 :> "fp8fp8bf16_rowwise_128x16x32x512_16x16_1x1_32x4x1_32x4x1_1x16x1x8_4x4x1_1x1_intrawave_v2"
  @@ 32 :> "fp8fp8bf16_rowwise_256x16x64x512_16x16_1x1_32x8x1_32x8x1_1x16x1x16_4x4x1_1x1_intrawave_v3"
  @@ 64 :> "fp8fp8bf16_rowwise_256x32x64x512_16x16_1x2_32x8x1_32x8x1_1x32x1x8_8x8x1_1x2_intrawave_v3"
  @@ 128 :> "fp8fp8bf16_rowwise_256x64x64x512_32x32_1x1_32x8x1_32x8x1_1x32x1x8_8x8x1_1x1_intrawave_v3"
  @@ 192 :> "fp8fp8bf16_rowwise_256x64x96x256_16x16_2x3_16x16x1_16x16x1_1x64x1x4_8x8x1_2x1_intrawave_v3"
  @@ 256 :> "fp8fp8bf16_rowwise_256x64x128x256_32x32_1x2_16x16x1_16x16x1_1x32x1x8_8x8x1_1x1_intrawave_v3"
  @@ 384 :> "fp8fp8bf16_rowwise_256x128x96x256_32x32_1x3_16x16x1_16x16x1_1x64x1x4_8x8x1_1x1_intrawave_v3"
  @@ 512 :> "fp8fp8bf16_rowwise_256x128x128x256_32x32_2x2_16x16x1_16x16x1_1x32x1x8_8x8x1_1x1_intrawave_v3"
  @@ 640 :> "fp8fp8bf16_rowwise_256x128x160x128_32x32_1x5_8x32x1_8x32x1_1x64x1x4_8x8x1_1x1_intrawave_v3"
  @@ 896 :> "fp8fp8bf16_rowwise_256x128x192x128_32x32_2x3_8x32x1_8x32x1_1x32x1x8_8x8x1_1x1_intrawave_v3"
  @@ 1024 :> "fp8fp8bf16_rowwise_256x256x128x128_16x16_8x4_8x32x1_8x32x1_1x32x1x8_8x8x1_1x2_intrawave_v3"
  @@ 1280 :> "fp8fp8bf16_rowwise_256x256x160x128_16x16_8x5_8x32x1_8x32x1_1x64x1x4_8x8x1_2x1_intrawave_v3"
  @@ 1792 :> "fp8fp8bf16_rowwise_256x256x192x128_16x16_8x6_8x32x1_8x32x1_1x32x1x8_8x8x1_1x2_intrawave_v3"
  @@ 2048 :> "fp8fp8bf16_rowwise_256x256x224x128_16x16_8x7_8x32x1_8x32x1_1x64x1x4_8x8x1_2x1_intrawave_v3"
  @@ 2304 :> "fp8fp8bf16_rowwise_256x256x256x128_16x16_8x8_8x32x1_8x32x1_1x32x1x8_8x8x1_1x2_intrawave_v3"
  @@ 2368 :> "fp8fp8bf16_rowwise_256x128x256x128_32x32_2x4_8x32x1_8x32x1_1x32x1x8_8x8x1_1x1_intrawave_v3"
  @@ 2816 :> "fp8fp8bf16_rowwise_256x256x160x128_16x16_8x5_8x32x1_8x32x1_1x64x1x4_8x8x1_2x1_intrawave_v3"
  @@ 3584 :> "fp8fp8bf16_rowwise_256x256x192x128_16x16_8x6_8x32x1_8x32x1_1x32x1x8_8x8x1_1x2_intrawave_v3"
  @@ 4256 :> "fp8fp8bf16_rowwise_256x224x256x128_16x16_7x8_8x32x1_8x32x1_1x32x1x8_8x8x1_1x2_intrawave_v3"
  @@ 4864 :> "fp8fp8bf16_rowwise_256x256x256x128_16x16_8x8_8x32x1_8x32x1_1x32x1x8_8x8x1_1x2_intrawave_v3"
  @@ 5376 :> "fp8fp8bf16_rowwise_256x256x192x128_16x16_8x6_8x32x1_8x32x1_1x32x1x8_8x8x1_1x2_intrawave_v3"
  @@ 6272 :> "fp8fp8bf16_rowwise_256x224x256x128_16x16_7x8_8x32x1_8x32x1_1x32x1x8_8x8x1_1x2_intrawave_v3"
  @@ 7168 :> "fp8fp8bf16_rowwise_256x256x256x128_16x16_8x8_8x32x1_8x32x1_1x32x1x8_8x8x1_1x2_intrawave_v3"
  @@ 7424 :> "fp8fp8bf16_rowwise_256x256x160x128_16x16_8x5_8x32x1_8x32x1_1x64x1x4_8x8x1_2x1_intrawave_v3"
  @@ 8192 :> "fp8fp8bf16_rowwise_256x224x256x128_16x16_7x8_8x32x1_8x32x1_1x32x1x8_8x8x1_1x2_intrawave_v3"

N_1024_K_5120_dispatch_table ==
     32 :> "fp8fp8bf16_rowwise_128x16x32x128_16x16_1x1_8x16x1_8x16x1_1x16x1x8_4x4x1_1x1_interwave_v2_8"
  @@ 64 :> "fp8fp8bf16_rowwise_128x16x32x512_16x16_1x1_32x4x1_32x4x1_1x16x1x8_4x4x1_1x1_intrawave_v2_2"
  @@ 128 :> "fp8fp8bf16_rowwise_128x16x32x512_16x16_1x1_32x4x1_32x4x1_1x16x1x8_4x4x1_1x1_intrawave_v2"
  @@ 192 :> "fp8fp8bf16_rowwise_256x16x64x512_16x16_1x1_32x8x1_32x8x1_1x16x1x16_4x4x1_1x1_intrawave_v3"
  @@ 608 :> "fp8fp8bf16_rowwise_256x32x64x512_16x16_1x2_32x8x1_32x8x1_1x32x1x8_8x8x1_1x2_intrawave_v3"
  @@ 1216 :> "fp8fp8bf16_rowwise_256x64x64x512_32x32_1x1_32x8x1_32x8x1_1x32x1x8_8x8x1_1x1_intrawave_v3"
  @@ 2432 :> "fp8fp8bf16_rowwise_256x64x128x256_32x32_1x2_16x16x1_16x16x1_1x32x1x8_8x8x1_1x1_intrawave_v3"
  @@ 3456 :> "fp8fp8bf16_rowwise_256x128x96x256_32x32_1x3_16x16x1_16x16x1_1x64x1x4_8x8x1_1x1_intrawave_v3"
  @@ 4864 :> "fp8fp8bf16_rowwise_256x128x128x256_32x32_2x2_16x16x1_16x16x1_1x32x1x8_8x8x1_1x1_intrawave_v3"
  @@ 5472 :> "fp8fp8bf16_rowwise_256x128x160x128_32x32_1x5_8x32x1_8x32x1_1x64x1x4_8x8x1_1x1_intrawave_v3"
  @@ 6368 :> "fp8fp8bf16_rowwise_256x128x192x128_32x32_2x3_8x32x1_8x32x1_1x32x1x8_8x8x1_1x1_intrawave_v3"
  @@ 6912 :> "fp8fp8bf16_rowwise_256x256x96x128_16x16_8x3_8x32x1_8x32x1_1x64x1x4_8x8x1_2x1_intrawave_v3"
  @@ 8192 :> "fp8fp8bf16_rowwise_256x256x128x128_16x16_8x4_8x32x1_8x32x1_1x32x1x8_8x8x1_1x2_intrawave_v3"

N_5120_K_1024_dispatch_table ==
     16 :> "fp8fp8bf16_rowwise_128x16x32x128_16x16_1x1_8x16x1_8x16x1_1x16x1x8_4x4x1_1x1_interwave_v2"
  @@ 32 :> "fp8fp8bf16_rowwise_64x16x16x256_16x16_1x1_16x4x1_16x4x1_1x16x1x4_4x4x1_1x1_intrawave_v1"
  @@ 64 :> "fp8fp8bf16_rowwise_128x32x16x256_16x16_1x1_16x8x1_16x8x1_1x32x1x4_4x4x1_1x1_interwave_v1"
  @@ 96 :> "fp8fp8bf16_rowwise_128x16x32x256_16x16_1x1_16x8x1_16x8x1_1x16x1x8_4x4x1_1x1_intrawave_v1"
  @@ 192 :> "fp8fp8bf16_rowwise_256x32x128x256_32x32_1x1_16x16x1_16x16x1_1x32x1x8_8x8x1_1x1_intrawave_v3"
  @@ 256 :> "fp8fp8bf16_rowwise_256x64x64x128_32x32_1x1_8x32x1_8x32x1_1x32x1x8_8x8x1_1x1_intrawave_v3"
  @@ 320 :> "fp8fp8bf16_rowwise_256x64x96x256_16x16_2x3_16x16x1_16x16x1_1x64x1x4_8x8x1_2x1_intrawave_v3"
  @@ 448 :> "fp8fp8bf16_rowwise_256x64x128x256_32x32_1x2_16x16x1_16x16x1_1x32x1x8_8x8x1_1x1_intrawave_v3"
  @@ 640 :> "fp8fp8bf16_rowwise_256x128x96x256_32x32_1x3_16x16x1_16x16x1_1x64x1x4_8x8x1_1x1_intrawave_v3"
  @@ 896 :> "fp8fp8bf16_rowwise_256x128x128x256_32x32_2x2_16x16x1_16x16x1_1x32x1x8_8x8x1_1x1_intrawave_v3"
  @@ 1152 :> "fp8fp8bf16_rowwise_256x128x160x128_32x32_1x5_8x32x1_8x32x1_1x64x1x4_8x8x1_1x1_intrawave_v3"
  @@ 1408 :> "fp8fp8bf16_rowwise_256x128x192x128_32x32_2x3_8x32x1_8x32x1_1x32x1x8_8x8x1_1x1_intrawave_v3"
  @@ 1920 :> "fp8fp8bf16_rowwise_256x128x128x128_32x32_2x2_8x32x1_8x32x1_1x32x1x8_8x8x1_1x1_intrawave_v3"
  @@ 2304 :> "fp8fp8bf16_rowwise_256x256x160x128_16x16_8x5_8x32x1_8x32x1_1x64x1x4_8x8x1_2x1_intrawave_v3"
  @@ 2816 :> "fp8fp8bf16_rowwise_256x256x192x128_16x16_8x6_8x32x1_8x32x1_1x32x1x8_8x8x1_1x2_intrawave_v3"
  @@ 3360 :> "fp8fp8bf16_rowwise_256x224x256x128_16x16_7x8_8x32x1_8x32x1_1x32x1x8_8x8x1_1x2_intrawave_v3"
  @@ 3840 :> "fp8fp8bf16_rowwise_256x256x256x128_16x16_8x8_8x32x1_8x32x1_1x32x1x8_8x8x1_1x2_intrawave_v3"
  @@ 4864 :> "fp8fp8bf16_rowwise_256x256x160x128_16x16_8x5_8x32x1_8x32x1_1x64x1x4_8x8x1_2x1_intrawave_v3"
  @@ 5632 :> "fp8fp8bf16_rowwise_256x256x192x128_16x16_8x6_8x32x1_8x32x1_1x32x1x8_8x8x1_1x2_intrawave_v3"
  @@ 6720 :> "fp8fp8bf16_rowwise_256x256x224x128_16x16_8x7_8x32x1_8x32x1_1x64x1x4_8x8x1_2x1_intrawave_v3"
  @@ 7680 :> "fp8fp8bf16_rowwise_256x256x256x128_16x16_8x8_8x32x1_8x32x1_1x32x1x8_8x8x1_1x2_intrawave_v3"
  @@ 8192 :> "fp8fp8bf16_rowwise_256x256x192x128_16x16_8x6_8x32x1_8x32x1_1x32x1x8_8x8x1_1x2_intrawave_v3"

N_2048_K_5120_dispatch_table ==
     4 :> "fp8fp8bf16_rowwise_256x16x64x128_16x16_1x1_16x16x1_8x32x1_1x16x1x16_4x4x1_1x1_intrawave_v2_8"
  @@ 8 :> "fp8fp8bf16_rowwise_128x16x32x128_16x16_1x1_8x16x1_8x16x1_1x16x1x8_4x4x1_1x1_interwave_v2_4"
  @@ 64 :> "fp8fp8bf16_rowwise_128x32x16x512_16x16_1x1_32x4x1_32x4x1_1x32x1x4_4x4x1_1x1_intrawave_v2"
  @@ 288 :> "fp8fp8bf16_rowwise_256x32x64x512_16x16_1x2_32x8x1_32x8x1_1x32x1x8_8x8x1_1x2_intrawave_v3"
  @@ 576 :> "fp8fp8bf16_rowwise_256x64x64x512_32x32_1x1_32x8x1_32x8x1_1x32x1x8_8x8x1_1x1_intrawave_v3"
  @@ 1216 :> "fp8fp8bf16_rowwise_256x64x128x256_32x32_1x2_16x16x1_16x16x1_1x32x1x8_8x8x1_1x1_intrawave_v3"
  @@ 1664 :> "fp8fp8bf16_rowwise_256x128x96x256_32x32_1x3_16x16x1_16x16x1_1x64x1x4_8x8x1_1x1_intrawave_v3"
  @@ 2432 :> "fp8fp8bf16_rowwise_256x128x128x256_32x32_2x2_16x16x1_16x16x1_1x32x1x8_8x8x1_1x1_intrawave_v3"
  @@ 2944 :> "fp8fp8bf16_rowwise_256x128x160x128_32x32_1x5_8x32x1_8x32x1_1x64x1x4_8x8x1_1x1_intrawave_v3"
  @@ 3456 :> "fp8fp8bf16_rowwise_256x128x192x128_32x32_2x3_8x32x1_8x32x1_1x32x1x8_8x8x1_1x1_intrawave_v3"
  @@ 4864 :> "fp8fp8bf16_rowwise_256x256x128x128_16x16_8x4_8x32x1_8x32x1_1x32x1x8_8x8x1_1x2_intrawave_v3"
  @@ 5888 :> "fp8fp8bf16_rowwise_256x256x160x128_16x16_8x5_8x32x1_8x32x1_1x64x1x4_8x8x1_2x1_intrawave_v3"
  @@ 5984 :> "fp8fp8bf16_rowwise_256x256x192x128_16x16_8x6_8x32x1_8x32x1_1x32x1x8_8x8x1_1x2_intrawave_v3"

N_896_K_5120_dispatch_table ==
     64 :> "fp8fp8bf16_rowwise_128x16x32x128_16x16_1x1_8x16x1_8x16x1_1x16x1x8_4x4x1_1x1_interwave_v2_8"
  @@ 72 :> "fp8fp8bf16_rowwise_128x16x32x128_16x16_1x1_8x16x1_8x16x1_1x16x1x8_4x4x1_1x1_intrawave_v2_8"
  @@ 80 :> "fp8fp8bf16_rowwise_128x16x32x512_16x16_1x1_32x4x1_32x4x1_1x16x1x8_4x4x1_1x1_interwave_v2_2"
  @@ 160 :> "fp8fp8bf16_rowwise_128x32x16x512_16x16_1x1_32x4x1_32x4x1_1x32x1x4_4x4x1_1x1_intrawave_v2"
  @@ 200 :> "fp8fp8bf16_rowwise_256x16x64x512_16x16_1x1_32x8x1_32x8x1_1x16x1x16_4x4x1_1x1_intrawave_v3"
  @@ 256 :> "fp8fp8bf16_rowwise_256x64x16x512_16x16_1x1_32x8x1_32x8x1_1x64x1x4_4x4x1_1x1_intrawave_v2"
  @@ 672 :> "fp8fp8bf16_rowwise_256x32x64x512_16x16_1x2_32x8x1_32x8x1_1x32x1x8_8x8x1_1x2_intrawave_v3"
  @@ 1344 :> "fp8fp8bf16_rowwise_256x64x64x512_32x32_1x1_32x8x1_32x8x1_1x32x1x8_8x8x1_1x1_intrawave_v3"
  @@ 2752 :> "fp8fp8bf16_rowwise_256x64x128x256_32x32_1x2_16x16x1_16x16x1_1x32x1x8_8x8x1_1x1_intrawave_v3"
  @@ 3840 :> "fp8fp8bf16_rowwise_256x128x96x256_32x32_1x3_16x16x1_16x16x1_1x64x1x4_8x8x1_1x1_intrawave_v3"
  @@ 5504 :> "fp8fp8bf16_rowwise_256x128x128x256_32x32_2x2_16x16x1_16x16x1_1x32x1x8_8x8x1_1x1_intrawave_v3"
  @@ 5984 :> "fp8fp8bf16_rowwise_256x128x160x128_32x32_1x5_8x32x1_8x32x1_1x64x1x4_8x8x1_1x1_intrawave_v3"

N_5120_K_640_dispatch_table ==
     64 :> "fp8fp8bf16_rowwise_128x16x32x128_16x16_1x1_8x16x1_8x16x1_1x16x1x8_4x4x1_1x1_interwave_v2"
  @@ 80 :> "fp8fp8bf16_rowwise_128x32x16x128_16x16_1x1_8x16x1_8x16x1_1x16x1x8_2x2x1_1x1_interwave_v2"
  @@ 112 :> "fp8fp8bf16_rowwise_128x16x32x128_16x16_1x1_8x16x1_8x16x1_1x16x1x8_4x4x1_1x1_intrawave_v1"
  @@ 192 :> "fp8fp8bf16_rowwise_256x64x64x128_32x32_1x1_8x32x1_8x32x1_1x32x1x8_8x8x1_1x1_intrawave_v3"
  @@ 224 :> "fp8fp8bf16_rowwise_128x32x64x128_32x32_1x1_8x16x1_8x16x1_1x16x1x8_8x8x1_1x1_interwave_v2"
  @@ 256 :> "fp8fp8bf16_rowwise_128x64x32x128_32x32_1x1_8x16x1_8x16x1_1x16x1x8_4x4x1_1x1_interwave_v2"
  @@ 384 :> "fp8fp8bf16_rowwise_256x128x64x128_32x32_2x1_8x32x1_8x32x1_1x32x1x8_8x8x1_1x1_intrawave_v3"
  @@ 448 :> "fp8fp8bf16_rowwise_256x64x128x128_32x32_1x2_8x32x1_8x32x1_1x32x1x8_8x8x1_1x1_intrawave_v3"
  @@ 512 :> "fp8fp8bf16_rowwise_256x128x128x128_32x32_2x2_8x32x1_8x32x1_1x32x1x8_8x8x1_1x1_intrawave_v3"
  @@ 704 :> "fp8fp8bf16_rowwise_256x64x192x128_32x32_1x3_8x32x1_8x32x1_1x32x1x8_8x8x1_1x1_intrawave_v3"
  @@ 896 :> "fp8fp8bf16_rowwise_256x128x128x128_32x32_2x2_8x32x1_8x32x1_1x32x1x8_8x8x1_1x1_intrawave_v3"
  @@ 960 :> "fp8fp8bf16_rowwise_256x64x256x128_32x32_1x4_8x32x1_8x32x1_1x32x1x8_8x8x1_1x1_intrawave_v3"
  @@ 1152 :> "fp8fp8bf16_rowwise_256x128x160x128_32x32_1x5_8x32x1_8x32x1_1x64x1x4_8x8x1_1x1_intrawave_v3"
  @@ 1280 :> "fp8fp8bf16_rowwise_256x256x96x128_32x32_2x3_8x32x1_8x32x1_1x64x1x4_8x8x1_2x1_intrawave_v3"
  @@ 1408 :> "fp8fp8bf16_rowwise_256x128x192x128_32x32_2x3_8x32x1_8x32x1_1x32x1x8_8x8x1_1x1_intrawave_v3"
  @@ 1920 :> "fp8fp8bf16_rowwise_256x128x128x128_32x32_2x2_8x32x1_8x32x1_1x32x1x8_8x8x1_1x1_intrawave_v3"
  @@ 2304 :> "fp8fp8bf16_rowwise_256x256x160x128_16x16_8x5_8x32x1_8x32x1_1x64x1x4_8x8x1_2x1_intrawave_v3"
  @@ 2816 :> "fp8fp8bf16_rowwise_256x256x192x128_16x16_8x6_8x32x1_8x32x1_1x32x1x8_8x8x1_1x2_intrawave_v3"
  @@ 3360 :> "fp8fp8bf16_rowwise_256x224x256x128_16x16_7x8_8x32x1_8x32x1_1x32x1x8_8x8x1_1x2_intrawave_v3"
  @@ 3840 :> "fp8fp8bf16_rowwise_256x256x256x128_16x16_8x8_8x32x1_8x32x1_1x32x1x8_8x8x1_1x2_intrawave_v3"
  @@ 4864 :> "fp8fp8bf16_rowwise_256x256x160x128_16x16_8x5_8x32x1_8x32x1_1x64x1x4_8x8x1_2x1_intrawave_v3"
  @@ 5520 :> "fp8fp8bf16_rowwise_256x256x192x128_16x16_8x6_8x32x1_8x32x1_1x32x1x8_8x8x1_1x2_intrawave_v3"
  @@ 5760 :> "fp8fp8bf16_rowwise_256x128x128x128_32x32_2x2_8x32x1_8x32x1_1x32x1x8_8x8x1_1x1_intrawave_v3"
  @@ 5984 :> "fp8fp8bf16_rowwise_256x224x256x128_16x16_7x8_8x32x1_8x32x1_1x32x1x8_8x8x1_1x2_intrawave_v3"

N_4096_K_5120_dispatch_table ==
     16 :> "fp8fp8bf16_rowwise_128x16x32x512_16x16_1x1_32x4x1_32x4x1_1x16x1x8_4x4x1_1x1_interwave_v2"
  @@ 32 :> "fp8fp8bf16_rowwise_128x32x16x512_16x16_1x1_32x4x1_32x4x1_1x32x1x4_4x4x1_1x1_interwave_v2"
  @@ 48 :> "fp8fp8bf16_rowwise_256x16x64x512_16x16_1x1_32x8x1_32x8x1_1x16x1x16_4x4x1_1x1_intrawave_v3"
  @@ 128 :> "fp8fp8bf16_rowwise_256x32x64x512_16x16_1x2_32x8x1_32x8x1_1x32x1x8_8x8x1_1x2_intrawave_v3"
  @@ 256 :> "fp8fp8bf16_rowwise_256x64x64x512_32x32_1x1_32x8x1_32x8x1_1x32x1x8_8x8x1_1x1_intrawave_v3"
  @@ 288 :> "fp8fp8bf16_rowwise_256x32x128x256_32x32_1x1_16x16x1_16x16x1_1x32x1x8_8x8x1_1x1_intrawave_v3"
  @@ 576 :> "fp8fp8bf16_rowwise_256x64x128x256_32x32_1x2_16x16x1_16x16x1_1x32x1x8_8x8x1_1x1_intrawave_v3"
  @@ 896 :> "fp8fp8bf16_rowwise_256x128x96x128_16x16_4x3_8x32x1_8x32x1_1x64x1x4_8x8x1_2x1_intrawave_v3"
  @@ 1152 :> "fp8fp8bf16_rowwise_256x128x128x128_16x16_4x4_8x32x1_8x32x1_1x32x1x8_8x8x1_1x2_intrawave_v3"
  @@ 1392 :> "fp8fp8bf16_rowwise_256x128x160x128_16x16_4x5_8x32x1_8x32x1_1x64x1x4_8x8x1_2x1_intrawave_v3"
  @@ 1440 :> "fp8fp8bf16_rowwise_256x160x128x128_16x16_5x4_8x32x1_8x32x1_1x32x1x8_8x8x1_1x2_intrawave_v3"
  @@ 1776 :> "fp8fp8bf16_rowwise_256x128x96x128_16x16_4x3_8x32x1_8x32x1_1x64x1x4_8x8x1_2x1_intrawave_v3"
  @@ 1824 :> "fp8fp8bf16_rowwise_256x96x128x128_16x16_3x4_8x32x1_8x32x1_1x32x1x8_8x8x1_1x2_intrawave_v3"
  @@ 2240 :> "fp8fp8bf16_rowwise_256x160x96x128_16x16_5x3_8x32x1_8x32x1_1x32x1x8_4x4x1_1x1_intrawave_v3"
  @@ 2496 :> "fp8fp8bf16_rowwise_256x192x192x128_16x16_6x6_8x32x1_8x32x1_1x32x1x8_8x8x1_1x2_intrawave_v3"
  @@ 2816 :> "fp8fp8bf16_rowwise_256x256x160x128_16x16_8x5_8x32x1_8x32x1_1x64x1x4_8x8x1_2x1_intrawave_v3"
  @@ 2896 :> "fp8fp8bf16_rowwise_256x224x192x128_16x16_7x6_8x32x1_8x32x1_1x32x1x8_8x8x1_1x2_intrawave_v3"
  @@ 3040 :> "fp8fp8bf16_rowwise_256x160x256x128_16x16_5x8_8x32x1_8x32x1_1x32x1x8_8x8x1_1x2_intrawave_v3"
  @@ 3072 :> "fp8fp8bf16_rowwise_256x192x224x128_16x16_6x7_8x32x1_8x32x1_1x64x1x4_8x8x1_2x1_intrawave_v3"
  @@ 3328 :> "fp8fp8bf16_rowwise_256x256x192x128_16x16_8x6_8x32x1_8x32x1_1x32x1x8_8x8x1_1x2_intrawave_v3"
  @@ 3648 :> "fp8fp8bf16_rowwise_256x192x256x128_16x16_6x8_8x32x1_8x32x1_1x32x1x8_8x8x1_1x2_intrawave_v3"
  @@ 4096 :> "fp8fp8bf16_rowwise_256x256x224x128_16x16_8x7_8x32x1_8x32x1_1x64x1x4_8x8x1_2x1_intrawave_v3"
  @@ 4256 :> "fp8fp8bf16_rowwise_256x224x256x128_16x16_7x8_8x32x1_8x32x1_1x32x1x8_8x8x1_1x2_intrawave_v3"
  @@ 4832 :> "fp8fp8bf16_rowwise_256x256x256x64_32x32_4x4_4x64x1_4x64x1_1x32x1x8_8x8x1_1x1_intrawave_v4"
  @@ 4864 :> "fp8fp8bf16_rowwise_256x256x256x128_16x16_8x8_8x32x1_8x32x1_1x32x1x8_8x8x1_1x2_intrawave_v3"
  @@ 5152 :> "fp8fp8bf16_rowwise_256x224x160x128_16x16_7x5_8x32x1_8x32x1_1x32x1x8_4x4x1_1x1_intrawave_v3"
  @@ 5184 :> "fp8fp8bf16_rowwise_256x192x192x128_16x16_6x6_8x32x1_8x32x1_1x32x1x8_8x8x1_1x2_intrawave_v3"
  @@ 5888 :> "fp8fp8bf16_rowwise_256x256x160x128_16x16_8x5_8x32x1_8x32x1_1x64x1x4_8x8x1_2x1_intrawave_v3"
  @@ 5920 :> "fp8fp8bf16_rowwise_256x160x256x128_16x16_5x8_8x32x1_8x32x1_1x32x1x8_8x8x1_1x2_intrawave_v3"
  @@ 5984 :> "fp8fp8bf16_rowwise_256x224x192x128_16x16_7x6_8x32x1_8x32x1_1x32x1x8_8x8x1_1x2_intrawave_v3"

N_5120_K_2048_dispatch_table ==
     48 :> "fp8fp8bf16_rowwise_256x16x64x512_16x16_1x1_32x8x1_32x8x1_1x16x1x16_4x4x1_1x1_intrawave_v2"
  @@ 96 :> "fp8fp8bf16_rowwise_256x32x64x512_16x16_1x2_32x8x1_32x8x1_1x32x1x8_8x8x1_1x2_intrawave_v3"
  @@ 192 :> "fp8fp8bf16_rowwise_256x64x64x512_32x32_1x1_32x8x1_32x8x1_1x32x1x8_8x8x1_1x1_intrawave_v3"
  @@ 224 :> "fp8fp8bf16_rowwise_256x32x128x256_32x32_1x1_16x16x1_16x16x1_1x32x1x8_8x8x1_1x1_intrawave_v3"
  @@ 384 :> "fp8fp8bf16_rowwise_256x128x64x256_32x32_2x1_16x16x1_16x16x1_1x32x1x8_8x8x1_1x1_intrawave_v3"
  @@ 448 :> "fp8fp8bf16_rowwise_256x64x128x256_32x32_1x2_16x16x1_16x16x1_1x32x1x8_8x8x1_1x1_intrawave_v3"
  @@ 560 :> "fp8fp8bf16_rowwise_256x80x128x256_16x16_5x2_16x16x1_16x16x1_1x16x1x16_8x8x1_1x2_intrawave_v3"
  @@ 608 :> "fp8fp8bf16_rowwise_256x128x96x128_16x16_4x3_8x32x1_8x32x1_1x64x1x4_8x8x1_2x1_intrawave_v3"
  @@ 672 :> "fp8fp8bf16_rowwise_256x96x128x128_16x16_3x4_8x32x1_8x32x1_1x32x1x8_8x8x1_1x2_intrawave_v3"
  @@ 896 :> "fp8fp8bf16_rowwise_256x128x128x128_16x16_4x4_8x32x1_8x32x1_1x32x1x8_8x8x1_1x2_intrawave_v3"
  @@ 1008 :> "fp8fp8bf16_rowwise_256x128x160x128_16x16_4x5_8x32x1_8x32x1_1x64x1x4_8x8x1_2x1_intrawave_v3"
  @@ 1120 :> "fp8fp8bf16_rowwise_256x160x128x128_16x16_5x4_8x32x1_8x32x1_1x32x1x8_8x8x1_1x2_intrawave_v3"
  @@ 1408 :> "fp8fp8bf16_rowwise_256x128x96x128_16x16_4x3_8x32x1_8x32x1_1x64x1x4_8x8x1_2x1_intrawave_v3"
  @@ 1440 :> "fp8fp8bf16_rowwise_256x96x128x128_16x16_3x4_8x32x1_8x32x1_1x32x1x8_8x8x1_1x2_intrawave_v3"
  @@ 1536 :> "fp8fp8bf16_rowwise_256x128x128x128_16x16_4x4_8x32x1_8x32x1_1x32x1x8_8x8x1_1x2_intrawave_v3"
  @@ 1600 :> "fp8fp8bf16_rowwise_256x160x96x128_16x16_5x3_8x32x1_8x32x1_1x32x1x8_4x4x1_1x1_intrawave_v3"
  @@ 1920 :> "fp8fp8bf16_rowwise_256x128x128x128_16x16_4x4_8x32x1_8x32x1_1x32x1x8_8x8x1_1x2_intrawave_v3"
  @@ 2112 :> "fp8fp8bf16_rowwise_256x192x192x128_16x16_6x6_8x32x1_8x32x1_1x32x1x8_8x8x1_1x2_intrawave_v3"
  @@ 2400 :> "fp8fp8bf16_rowwise_256x160x256x128_16x16_5x8_8x32x1_8x32x1_1x32x1x8_8x8x1_1x2_intrawave_v3"
  @@ 2464 :> "fp8fp8bf16_rowwise_256x224x192x128_16x16_7x6_8x32x1_8x32x1_1x32x1x8_8x8x1_1x2_intrawave_v3"
  @@ 2496 :> "fp8fp8bf16_rowwise_256x192x224x128_16x16_6x7_8x32x1_8x32x1_1x64x1x4_8x8x1_2x1_intrawave_v3"
  @@ 2816 :> "fp8fp8bf16_rowwise_256x256x192x128_16x16_8x6_8x32x1_8x32x1_1x32x1x8_8x8x1_1x2_intrawave_v3"
  @@ 2880 :> "fp8fp8bf16_rowwise_256x192x256x128_16x16_6x8_8x32x1_8x32x1_1x32x1x8_8x8x1_1x2_intrawave_v3"
  @@ 3328 :> "fp8fp8bf16_rowwise_256x256x224x128_16x16_8x7_8x32x1_8x32x1_1x64x1x4_8x8x1_2x1_intrawave_v3"
  @@ 3360 :> "fp8fp8bf16_rowwise_256x224x256x128_16x16_7x8_8x32x1_8x32x1_1x32x1x8_8x8x1_1x2_intrawave_v3"
  @@ 3840 :> "fp8fp8bf16_rowwise_256x256x256x128_16x16_8x8_8x32x1_8x32x1_1x32x1x8_8x8x1_1x2_intrawave_v3"
  @@ 4224 :> "fp8fp8bf16_rowwise_256x192x192x128_16x16_6x6_8x32x1_8x32x1_1x32x1x8_8x8x1_1x2_intrawave_v3"
  @@ 4736 :> "fp8fp8bf16_rowwise_256x128x128x128_16x16_4x4_8x32x1_8x32x1_1x32x1x8_8x8x1_1x2_intrawave_v3"
  @@ 4864 :> "fp8fp8bf16_rowwise_256x256x160x128_16x16_8x5_8x32x1_8x32x1_1x64x1x4_8x8x1_2x1_intrawave_v3"
  @@ 4928 :> "fp8fp8bf16_rowwise_256x224x192x128_16x16_7x6_8x32x1_8x32x1_1x32x1x8_8x8x1_1x2_intrawave_v3"
  @@ 4992 :> "fp8fp8bf16_rowwise_256x192x224x128_16x16_6x7_8x32x1_8x32x1_1x64x1x4_8x8x1_2x1_intrawave_v3"
  @@ 5632 :> "fp8fp8bf16_rowwise_256x256x192x128_16x16_8x6_8x32x1_8x32x1_1x32x1x8_8x8x1_1x2_intrawave_v3"
  @@ 5760 :> "fp8fp8bf16_rowwise_256x192x256x128_16x16_6x8_8x32x1_8x32x1_1x32x1x8_8x8x1_1x2_intrawave_v3"
  @@ 5984 :> "fp8fp8bf16_rowwise_256x256x224x128_16x16_8x7_8x32x1_8x32x1_1x64x1x4_8x8x1_2x1_intrawave_v3"

\* Family table: (N, K) -> ordered table from M to kernel.
NK_lookup_table ==
     <<7168, 8192>> :> N_7168_K_8192_dispatch_table
  @@ <<8192, 3584>> :> N_8192_K_3584_dispatch_table
  @@ <<1024, 5120>> :> N_1024_K_5120_dispatch_table
  @@ <<5120, 1024>> :> N_5120_K_1024_dispatch_table
  @@ <<2048, 5120>> :> N_2048_K_5120_dispatch_table
  @@ <<896, 5120>> :> N_896_K_5120_dispatch_table
  @@ <<5120, 640>> :> N_5120_K_640_dispatch_table
  @@ <<4096, 5120>> :> N_4096_K_5120_dispatch_table
  @@ <<5120, 2048>> :> N_5120_K_2048_dispatch_table

\* Exact-key table of the bf16 grouped operators: (G, padded M, N, K) -> kernel.
bf16_grouped_lookup_dispatch ==
     <<16, 16, 2048, 5120>> :> "bf16_grouped_128x16x64x128_16x16_1x2_16x8x1_16x8x1_1x16x1x8_8x8x1_1x2_intrawave_v2"
  @@ <<16, 16, 5120, 1024>> :> "bf16_grouped_64x16x16x128_16x16_1x1_16x4x1_16x4x1_1x16x1x4_4x4x1_1x1_interwave_v2"
  @@ <<16, 16, 16384, 5120>> :> "bf16_grouped_64x16x32x128_16x16_1x2_16x4x1_16x4x1_1x16x1x4_8x8x1_1x2_intrawave_v2"
  @@ <<16, 16, 5120, 8192>> :> "bf16_grouped_128x16x64x128_16x16_1x2_16x8x1_16x8x1_1x16x1x8_8x8x1_1x2_interwave_v1"
  @@ <<16, 32, 2048, 5120>> :> "bf16_grouped_128x16x64x128_16x16_1x2_16x8x1_16x8x1_1x16x1x8_8x8x1_1x2_interwave_v2"
  @@ <<16, 32, 5120, 1024>> :> "bf16_grouped_256x16x64x128_16x16_1x1_16x16x1_16x16x1_1x16x1x16_4x4x1_1x1_interwave_v2"
  @@ <<16, 32, 16384, 5120>> :> "bf16_grouped_128x16x96x128_16x16_1x3_16x8x1_16x8x1_1x16x1x8_4x4x1_1x1_interwave_v1"
  @@ <<16, 32, 5120, 8192>> :> "bf16_grouped_128x16x96x64_16x16_1x3_8x16x1_8x16x1_1x16x1x8_4x4x1_1x1_intrawave_v1"
  @@ <<16, 64, 2048, 5120>> :> "bf16_grouped_256x16x64x128_16x16_1x1_16x16x1_16x16x1_1x16x1x16_4x4x1_1x1_interwave_v2"
  @@ <<16, 64, 5120, 1024>> :> "bf16_grouped_256x16x64x128_16x16_1x1_16x16x1_16x16x1_1x16x1x16_4x4x1_1x1_interwave_v2"
  @@ <<16, 64, 16384, 5120>> :> "bf16_grouped_128x16x96x128_16x16_1x3_16x8x1_16x8x1_1x16x1x8_4x4x1_1x1_interwave_v1"
  @@ <<16, 64, 5120, 8192>> :> "bf16_grouped_128x16x96x64_16x16_1x3_8x16x1_8x16x1_1x16x1x8_4x4x1_1x1_intrawave_v1"
  @@ <<16, 128, 2048, 5120>> :> "bf16_grouped_128x16x64x128_16x16_1x2_16x8x1_16x8x1_1x16x1x8_8x8x1_1x2_interwave_v2"
  @@ <<16, 128, 5120, 1024>> :> "bf16_grouped_256x16x64x128_16x16_1x1_16x16x1_16x16x1_1x16x1x16_4x4x1_1x1_interwave_v2"
  @@ <<16, 128, 16384, 5120>> :> "bf16_grouped_64x16x64x128_16x16_1x4_16x4x1_16x4x1_1x16x1x4_8x8x1_1x2_intrawave_v2"
  @@ <<16, 128, 5120, 8192>> :> "bf16_grouped_128x16x96x128_16x16_1x3_16x8x1_16x8x1_1x16x1x8_4x4x1_1x1_intrawave_v1"
  @@ <<16, 256, 2048, 5120>> :> "bf16_grouped_128x16x64x128_16x16_1x2_16x8x1_16x8x1_1x16x1x8_8x8x1_1x2_interwave_v2"
  @@ <<16, 256, 5120, 1024>> :> "bf16_grouped_128x16x32x128_16x16_1x1_16x8x1_16x8x1_1x16x1x8_4x4x1_1x1_interwave_v2"
  @@ <<16, 256, 16384, 5120>> :> "bf16_grouped_128x16x96x128_16x16_1x3_16x8x1_16x8x1_1x16x1x8_4x4x1_1x1_intrawave_v1"
  @@ <<16, 256, 5120, 8192>> :> "bf16_grouped_128x16x96x128_16x16_1x3_16x8x1_16x8x1_1x16x1x8_4x4x1_1x1_interwave_v1"
  @@ <<16, 512, 2048, 5120>> :> "bf16_grouped_128x32x64x128_32x32_1x1_16x8x1_16x8x1_1x16x1x8_8x8x1_1x1_interwave_v2"
  @@ <<16, 512, 5120, 1024>> :> "bf16_grouped_256x32x96x64_16x16_1x3_8x32x1_8x32x1_1x32x1x8_4x4x1_1x1_interwave_v2"
  @@ <<16, 512, 16384, 5120>> :> "bf16_grouped_128x32x96x128_16x16_2x3_16x8x1_16x8x1_1x32x1x4_8x8x1_2x1_intrawave_v2"
  @@ <<16, 512, 5120, 8192>> :> "bf16_grouped_256x32x96x64_16x16_1x3_8x32x1_8x32x1_1x32x1x8_4x4x1_1x1_interwave_v1"
  @@ <<16, 1024, 2048, 5120>> :> "bf16_grouped_256x64x128x128_32x32_2x1_16x16x1_16x16x1_1x16x1x16_8x8x1_1x1_intrawave_v3"
  @@ <<16, 1024, 5120, 1024>> :> "bf16_grouped_256x64x96x64_16x16_2x3_8x32x1_8x32x1_1x64x1x4_8x8x1_2x1_intrawave_v3"
  @@ <<16, 1024, 16384, 5120>> :> "bf16_grouped_256x64x192x128_16x16_4x3_16x16x1_16x16x1_1x32x1x8_8x8x1_2x1_intrawave_v3"
  @@ <<16, 1024, 5120, 8192>> :> "bf16_grouped_128x64x96x64_16x16_4x3_8x16x1_8x16x1_1x32x1x4_8x8x1_2x1_intrawave_v3"
  @@ <<16, 2048, 2048, 5120>> :> "bf16_grouped_256x128x128x128_32x32_2x2_16x16x1_16x16x1_1x32x1x8_8x8x1_1x1_intrawave_v3"
  @@ <<16, 2048, 5120, 1024>> :> "bf16_grouped_256x128x96x64_16x16_4x3_8x32x1_8x32x1_1x64x1x4_8x8x1_2x1_intrawave_v3"
  @@ <<16, 2048, 16384, 5120>> :> "bf16_grouped_256x128x224x64_16x16_4x7_8x32x1_8x32x1_1x64x1x4_8x8x1_2x1_intrawave_v3"
  @@ <<16, 2048, 5120, 8192>> :> "bf16_grouped_256x128x96x64_16x16_4x3_8x32x1_8x32x1_1x64x1x4_8x8x1_2x1_intrawave_v3"
  @@ <<16, 4096, 2048, 5120>> :> "bf16_grouped_256x128x256x64_32x32_4x2_8x32x1_8x32x1_1x16x1x16_8x8x1_1x1_intrawave_v3"
  @@ <<16, 4096, 5120, 1024>> :> "bf16_grouped_256x128x96x64_16x16_4x3_8x32x1_8x32x1_1x64x1x4_8x8x1_2x1_intrawave_v3"
  @@ <<16, 4096, 16384, 5120>> :> "bf16_grouped_256x256x224x64_16x16_8x7_8x32x1_8x32x1_1x64x1x4_8x8x1_2x1_intrawave_v3"
  @@ <<16, 4096, 5120, 8192>> :> "bf16_grouped_256x256x160x64_16x16_8x5_8x32x1_8x32x1_1x64x1x4_8x8x1_2x1_intrawave_v3"
  @@ <<16, 8192, 2048, 5120>> :> "bf16_grouped_256x256x256x64_32x32_4x4_8x32x1_8x32x1_1x32x1x8_8x8x1_1x1_intrawave_v3"
  @@ <<16, 8192, 5120, 1024>> :> "bf16_grouped_256x256x192x64_32x32_4x3_8x32x1_8x32x1_1x32x1x8_8x8x1_1x1_intrawave_v3"
  @@ <<16, 8192, 16384, 5120>> :> "bf16_grouped_256x256x224x64_16x16_8x7_8x32x1_8x32x1_1x64x1x4_8x8x1_2x1_intrawave_v3"
  @@ <<16, 8192, 5120, 8192>> :> "bf16_grouped_256x256x192x64_32x32_4x3_8x32x1_8x32x1_1x32x1x8_8x8x1_1x1_intrawave_v3"
  @@ <<128, 128, 2048, 5120>> :> "bf16_grouped_128x16x64x128_16x16_1x2_16x8x1_16x8x1_1x16x1x8_8x8x1_1x2_interwave_v2"
  @@ <<128, 128, 5120, 1024>> :> "bf16_grouped_256x16x64x128_16x16_1x1_16x16x1_16x16x1_1x16x1x16_4x4x1_1x1_interwave_v2"
  @@ <<128, 128, 16384, 5120>> :> "bf16_grouped_256x16x128x128_16x16_1x2_16x16x1_16x16x1_1x16x1x16_8x8x1_1x2_intrawave_v2"
  @@ <<128, 128, 5120, 8192>> :> "bf16_grouped_128x16x96x128_16x16_1x3_16x8x1_16x8x1_1x16x1x8_4x4x1_1x1_interwave_v2"
  @@ <<128, 256, 2048, 5120>> :> "bf16_grouped_128x16x96x128_16x16_1x3_16x8x1_16x8x1_1x16x1x8_4x4x1_1x1_intrawave_v1"
  @@ <<128, 256, 5120, 1024>> :> "bf16_grouped_256x16x64x128_16x16_1x1_16x16x1_16x16x1_1x16x1x16_4x4x1_1x1_interwave_v2"
  @@ <<128, 256, 16384, 5120>> :> "bf16_grouped_256x16x128x128_16x16_1x2_16x16x1_16x16x1_1x16x1x16_8x8x1_1x2_intrawave_v1"
  @@ <<128, 256, 5120, 8192>> :> "bf16_grouped_64x16x48x128_16x16_1x3_16x4x1_16x4x1_1x16x1x4_4x4x1_1x1_intrawave_v1"
  @@ <<128, 512, 2048, 5120>> :> "bf16_grouped_128x16x64x128_16x16_1x2_16x8x1_16x8x1_1x16x1x8_8x8x1_1x2_intrawave_v2"
  @@ <<128, 512, 5120, 1024>> :> "bf16_grouped_128x16x64x128_16x16_1x2_16x8x1_16x8x1_1x16x1x8_8x8x1_1x2_interwave_v2"
  @@ <<128, 512, 16384, 5120>> :> "bf16_grouped_256x16x128x128_16x16_1x2_16x16x1_16x16x1_1x16x1x16_8x8x1_1x2_intrawave_v2"
  @@ <<128, 512, 5120, 8192>> :> "bf16_grouped_128x16x96x128_16x16_1x3_16x8x1_16x8x1_1x16x1x8_4x4x1_1x1_interwave_v2"
  @@ <<128, 1024, 2048, 5120>> :> "bf16_grouped_128x16x96x128_16x16_1x3_16x8x1_16x8x1_1x16x1x8_4x4x1_1x1_intrawave_v2"
  @@ <<128, 1024, 5120, 1024>> :> "bf16_grouped_128x16x64x128_16x16_1x2_16x8x1_16x8x1_1x16x1x8_8x8x1_1x2_intrawave_v2"
  @@ <<128, 1024, 16384, 5120>> :> "bf16_grouped_256x16x128x128_16x16_1x2_16x16x1_16x16x1_1x16x1x16_8x8x1_1x2_intrawave_v2"
  @@ <<128, 1024, 5120, 8192>> :> "bf16_grouped_128x16x96x128_16x16_1x3_16x8x1_16x8x1_1x16x1x8_4x4x1_1x1_interwave_v2"
  @@ <<128, 2048, 2048, 5120>> :> "bf16_grouped_128x16x96x128_16x16_1x3_16x8x1_16x8x1_1x16x1x8_4x4x1_1x1_intrawave_v2"
  @@ <<128, 2048, 5120, 1024>> :> "bf16_grouped_128x16x32x128_16x16_1x1_16x8x1_16x8x1_1x16x1x8_4x4x1_1x1_interwave_v2"
  @@ <<128, 2048, 16384, 5120>> :> "bf16_grouped_256x16x128x128_16x16_1x2_16x16x1_16x16x1_1x16x1x16_8x8x1_1x2_intrawave_v2"
  @@ <<128, 2048, 5120, 8192>> :> "bf16_grouped_128x16x96x128_16x16_1x3_16x8x1_16x8x1_1x16x1x8_4x4x1_1x1_intrawave_v1"
  @@ <<128, 4096, 2048, 5120>> :> "bf16_grouped_128x32x64x128_32x32_1x1_16x8x1_16x8x1_1x16x1x8_8x8x1_1x1_intrawave_v1"
  @@ <<128, 4096, 5120, 1024>> :> "bf16_grouped_128x32x64x128_32x32_1x1_16x8x1_16x8x1_1x16x1x8_8x8x1_1x1_interwave_v2"
  @@ <<128, 4096, 16384, 5120>> :> "bf16_grouped_256x32x128x128_16x16_1x4_16x16x1_16x16x1_1x32x1x8_8x8x1_1x2_intrawave_v2"
  @@ <<128, 4096, 5120, 8192>> :> "bf16_grouped_256x32x224x64_16x16_1x7_8x32x1_8x32x1_1x32x1x8_4x4x1_1x1_intrawave_v1"
  @@ <<128, 8192, 2048, 5120>> :> "bf16_grouped_256x64x192x128_16x16_4x3_16x16x1_16x16x1_1x32x1x8_8x8x1_2x1_intrawave_v3"
  @@ <<128, 8192, 5120, 1024>> :> "bf16_grouped_128x64x128x64_32x32_2x2_8x16x1_8x16x1_1x16x1x8_8x8x1_1x1_intrawave_v3"
  @@ <<128, 8192, 16384, 5120>> :> "bf16_grouped_256x64x192x128_16x16_4x3_16x16x1_16x16x1_1x32x1x8_8x8x1_2x1_intrawave_v3"
  @@ <<128, 8192, 5120, 8192>> :> "bf16_grouped_256x64x192x128_16x16_4x3_16x16x1_16x16x1_1x32x1x8_8x8x1_2x1_intrawave_v3"

(***************************************************************************)
(* Tensors                                                                 *)
(***************************************************************************)

\* Sizes are below 2^31 throughout, so storing a 64-bit size into an int keeps
\* its value.

\* c10::size_to_dim_(k, sizes): the product of the first k sizes.
RECURSIVE size_to_dim_(_, _)
size_to_dim_(k, sizes) ==
  IF k <= 0 THEN 1 ELSE sizes[k] * size_to_dim_(k - 1, sizes)

\* A std::optional that holds nothing.
nullopt == [has_value |-> FALSE]

NoKernel == "no kernel"

Event(e, k) == [ev |-> e, k |-> k]

\* A failed TORCH_CHECK: the call ends with an error after the events so far.
Raise(msg, tr) ==
  [status |-> "error", err |-> msg, value |-> nullopt, output |-> nullopt, trace |-> tr]

\* An integer division whose divisor is zero was evaluated: the behaviour of
\* the call is undefined from there on.
DivisionByZero(expr, tr) ==
  [status |-> "undefined", err |-> expr, value |-> nullopt, output |-> nullopt,
   trace |-> tr]

Return(value, output, tr) ==
  [status |-> "ok", err |-> "", value |-> value, output |-> output, trace |-> tr]

(***************************************************************************)
(* Kernel selection                                                        *)
(***************************************************************************)

\* An if / else-if chain that returns from its first branch whose condition
\* holds; a chain that falls off its end returns no kernel.
RECURSIVE FirstMatch(_, _)
FirstMatch(branches, i) ==
  IF i > Len(branches) THEN NoKernel
  ELSE IF branches[i][1] THEN branches[i][2]
  ELSE FirstMatch(branches, i + 1)

\* The keys of a std::map in iteration (ascending) order.
RECURSIVE MapKeys(_)
MapKeys(keys) ==
  IF keys = {} THEN <<>>
  ELSE LET least == CHOOSE k \in keys : \A j \in keys : k <= j
       IN  <<least>> \o MapKeys(keys \ {least})

\* std::map::upper_bound: the position of the first key greater than M.
RECURSIVE upper_bound(_, _, _)
upper_bound(keys, M, i) ==
  IF i > Len(keys) THEN i
  ELSE IF M < keys[i] THEN i
  ELSE upper_bound(keys, M, i + 1)

\* std::map::lower_bound over the ordered keys: the position of the first key
\* that is not less than M, Len(keys) + 1 standing for end().
RECURSIVE lower_bound(_, _, _)
lower_bound(keys, M, i) ==
  IF i > Len(keys) THEN i
  ELSE IF ~(keys[i] < M) THEN i
  ELSE lower_bound(keys, M, i + 1)

\* A lookup that wraps to begin() when M exceeds every key.
nk_lookup_it_wrap(M, table) ==
  LET keys == MapKeys(DOMAIN table)
      it   == lower_bound(keys, M, 1)
  IN  IF it # Len(keys) + 1 THEN it ELSE 1

\* The iterator rowwise_nk_lookup dereferences.
nk_lookup_it(M, table) ==
  LET keys == MapKeys(DOMAIN table)
      it   == lower_bound(keys, M, 1)
  IN  IF it # Len(keys) + 1 THEN it ELSE it - 1

rowwise_nk_lookup(M, table) ==
  table[MapKeys(DOMAIN table)[nk_lookup_it(M, table)]]

\* A guard that asks K to be a multiple of the fallback kernel's K tile.
IrregularShape_KTile(N, K) ==
  ~((N % 8 = 0) /\ (K % 256 = 0))

\* A guard that tests N alone.
IrregularShape_OnlyN(N, K) ==
  ~(N % 8 = 0)

\* The guard of the fallback for irregular shapes.
IrregularShape(N, K) ==
  ~((N % 8 = 0) /\ (K % 16 = 0))

\* The range checks that follow the guard.
rowwise_heuristic_ranges(M, N, K) ==
  <<
    <<M < 64 /\ N < 2048 /\ K < 2048,
      "fp8fp8bf16_rowwise_64x16x16x128_16x16_1x1_8x8x1_8x8x1_1x16x1x4_4x4x1_1x1_interwave_v1">>,
    <<M < 64 /\ K < 2048,
      "fp8fp8bf16_rowwise_128x16x32x128_16x16_1x1_8x16x1_8x16x1_1x16x1x8_4x4x1_1x1_intrawave_v1">>,
    <<M < 64 /\ N < 2048,
      "fp8fp8bf16_rowwise_128x32x16x128_16x16_1x1_8x16x1_8x16x1_1x16x1x8_2x2x1_1x1_interwave_v1">>,
    <<M < 64 /\ N > 2048 /\ K > 2048,
      "fp8fp8bf16_rowwise_64x16x16x256_16x16_1x1_16x4x1_16x4x1_1x4x1x16_4x4x1_1x1_intrawave_v1">>,
    <<M < 64,
      "fp8fp8bf16_rowwise_64x16x16x128_16x16_1x1_8x8x1_8x8x1_1x16x1x4_4x4x1_1x1_interwave_v1">>,
    <<((M < 512 /\ K < 8192) \/ (N <= 2048 /\ K <= 8192) \/ (K <= 2048 /\ N <= 8192))
        /\ K >= 1024,
      "fp8fp8bf16_rowwise_256x128x128x128_32x32_2x2_8x32x1_8x32x1_1x32x1x8_8x8x1_1x1_intrawave_v5">>,
    <<K < 1024,
      "fp8fp8bf16_rowwise_256x128x128x128_32x32_2x2_8x32x1_8x32x1_1x32x1x8_8x8x1_1x1_interwave_v1">>,
    <<M < 1024,
      "fp8fp8bf16_rowwise_256x128x128x128_32x32_2x2_8x32x1_8x32x1_1x32x1x8_8x8x1_1x1_intrawave_v3">>,
    <<M >= 1024 /\ N >= 1024 /\ K >= 1024,
      "fp8fp8bf16_rowwise_256x256x256x128_16x16_8x8_8x32x1_8x32x1_1x32x1x8_8x8x1_1x2_intrawave_v3">>,
    <<TRUE,
      "fp8fp8bf16_rowwise_256x224x256x128_16x16_7x8_8x32x1_8x32x1_1x32x1x8_8x8x1_1x2_intrawave_v3">>
  >>

\* The heuristic without the branch that ends its chain.
rowwise_heuristic_dispatch_no_else(M, N, K) ==
  IF IrregularShape(N, K)
  THEN "fp8fp8bf16_rowwise_64x16x16x256_16x16_1x1_16x4x1_16x4x1_1x4x1x16_4x4x1_1x1_intrawave_v1"
  ELSE LET ranges == rowwise_heuristic_ranges(M, N, K)
       IN  FirstMatch(SubSeq(ranges, 1, Len(ranges) - 1), 1)

rowwise_heuristic_dispatch(M, N, K) ==
  IF IrregularShape(N, K)
  THEN "fp8fp8bf16_rowwise_64x16x16x256_16x16_1x1_16x4x1_16x4x1_1x4x1x16_4x4x1_1x1_intrawave_v1"
  ELSE FirstMatch(rowwise_heuristic_ranges(M, N, K), 1)

\* The bucket of M used for the exact-key lookup.
padded_m(M) ==
  IF M <= 16 THEN 16
  ELSE IF M <= 32 THEN 32
  ELSE IF M <= 64 THEN 64
  ELSE IF M <= 128 THEN 128
  ELSE M

\* A query of the family table with the bucket of M.
nk_query_m_padded(M) == padded_m(M)

\* The M that queries the family table.
nk_query_m(M) == M

\* rowwise_dispatch: the kernel it returns and, in order, the lookups it made.
rowwise_dispatch(M, N, K) ==
  LET key == <<padded_m(M), N, K>>
  IN  IF key \in DOMAIN rowwise_lookup_dispatch
      THEN [kernel |-> rowwise_lookup_dispatch[key],
            path   |-> <<"rowwise_lookup_dispatch">>]
      ELSE IF <<N, K>> \in DOMAIN NK_lookup_table
      THEN [kernel |-> rowwise_nk_lookup(nk_query_m(M), NK_lookup_table[<<N, K>>]),
            path   |-> <<"rowwise_lookup_dispatch", "NK_lookup_table">>]
      ELSE [kernel |-> rowwise_heuristic_dispatch(M, N, K),
            path   |-> <<"rowwise_lookup_dispatch", "NK_lookup_table",
                         "rowwise_heuristic_dispatch">>]

\* The inner K / N chain of one M range of the preshuffle heuristic.
rowwise_preshuffle_heuristic_ranges(M, N, K) ==
  <<
    <<M <= 16, FirstMatch(<<
      <<K <= 1024, "fp8_rowwise_preshuffle_256x16x64x256_16x16_1x1_16x16x1_16x16x1_1x16x1x16_4x4x1_1x1_intrawave_v1">>,
      <<N <= 1024, "fp8_rowwise_preshuffle_128x16x32x512_16x16_1x1_32x4x1_32x4x1_1x16x1x8_4x4x1_1x1_intrawave_v2">>,
      <<TRUE, "fp8_rowwise_preshuffle_128x16x32x512_16x16_1x1_32x4x1_32x4x1_1x16x1x8_4x4x1_1x1_intrawave_v1">> >>, 1)>>,
    <<M <= 32, FirstMatch(<<
      <<K <= 1024, "fp8_rowwise_preshuffle_256x16x64x256_16x16_1x1_16x16x1_16x16x1_1x16x1x16_4x4x1_1x1_intrawave_v1">>,
      <<N <= 1024, "fp8_rowwise_preshuffle_128x16x32x512_16x16_1x1_32x4x1_32x4x1_1x16x1x8_4x4x1_1x1_intrawave_v1">>,
      <<TRUE, "fp8_rowwise_preshuffle_256x16x64x512_16x16_1x1_32x8x1_32x8x1_1x16x1x16_4x4x1_1x1_intrawave_v2">> >>, 1)>>,
    <<M <= 64, FirstMatch(<<
      <<K <= 1024, "fp8_rowwise_preshuffle_256x16x64x256_16x16_1x1_16x16x1_16x16x1_1x16x1x16_4x4x1_1x1_intrawave_v1">>,
      <<N <= 1024, "fp8_rowwise_preshuffle_256x16x64x512_16x16_1x1_32x8x1_32x8x1_1x16x1x16_4x4x1_1x1_intrawave_v2">>,
      <<N <= 5120, "fp8_rowwise_preshuffle_256x16x128x256_16x16_1x2_16x16x1_16x16x1_1x16x1x16_8x8x1_1x2_intrawave_v1">>,
      <<TRUE, "fp8_rowwise_preshuffle_256x32x64x512_16x16_1x2_32x8x1_32x8x1_1x32x1x8_8x8x1_1x2_intrawave_v1">> >>, 1)>>,
    <<M <= 128, FirstMatch(<<
      <<K <= 1024, "fp8_rowwise_preshuffle_256x16x64x256_16x16_1x1_16x16x1_16x16x1_1x16x1x16_4x4x1_1x1_intrawave_v1">>,
      <<N <= 1024, "fp8_rowwise_preshuffle_256x32x64x512_16x16_1x2_32x8x1_32x8x1_1x32x1x8_8x8x1_1x2_intrawave_v1">>,
      <<TRUE, "fp8_rowwise_preshuffle_256x64x64x512_32x32_1x1_32x8x1_32x8x1_1x32x1x8_8x8x1_1x1_intrawave_v1">> >>, 1)>>,
    <<M <= 512, FirstMatch(<<
      <<K <= 1024, "fp8_rowwise_preshuffle_256x16x64x256_16x16_1x1_16x16x1_16x16x1_1x16x1x16_4x4x1_1x1_intrawave_v1">>,
      <<N <= 1024, "fp8_rowwise_preshuffle_256x64x64x512_32x32_1x1_32x8x1_32x8x1_1x32x1x8_8x8x1_1x1_intrawave_v1">>,
      <<TRUE, "fp8_rowwise_preshuffle_256x128x128x256_16x16_8x2_16x16x1_16x16x1_1x32x1x8_8x8x1_2x1_intrawave_v3">> >>, 1)>>,
    <<M <= 1024, FirstMatch(<<
      <<N <= 5120, "fp8_rowwise_preshuffle_256x128x128x256_16x16_8x2_16x16x1_16x16x1_1x32x1x8_8x8x1_2x1_intrawave_v3">>,
      <<TRUE, "fp8_rowwise_preshuffle_256x128x256x128_16x16_8x4_8x32x1_8x32x1_1x32x1x8_8x8x1_2x1_intrawave_v3">> >>, 1)>>,
    <<M <= 2048, FirstMatch(<<
      <<N <= 4096 \/ K <= 1024, "fp8_rowwise_preshuffle_256x128x256x128_16x16_8x4_8x32x1_8x32x1_1x32x1x8_8x8x1_2x1_intrawave_v3">>,
      <<TRUE, "fp8_rowwise_preshuffle_256x160x256x128_16x16_10x4_8x32x1_8x32x1_1x32x1x8_8x8x1_2x1_intrawave_v3">> >>, 1)>>,
    <<M <= 4096, FirstMatch(<<
      <<N <= 4096 \/ K <= 1024, "fp8_rowwise_preshuffle_256x160x256x128_16x16_10x4_8x32x1_8x32x1_1x32x1x8_8x8x1_2x1_intrawave_v3">>,
      <<TRUE, "fp8_rowwise_preshuffle_256x224x256x128_16x16_14x4_8x32x1_8x32x1_1x32x1x8_8x8x1_2x1_intrawave_v3">> >>, 1)>>,
    <<TRUE, "fp8_rowwise_preshuffle_256x224x256x128_16x16_14x4_8x32x1_8x32x1_1x32x1x8_8x8x1_2x1_intrawave_v3">>
  >>

rowwise_preshuffle_heuristic_dispatch(M, N, K) ==
  FirstMatch(rowwise_preshuffle_heuristic_ranges(M, N, K), 1)

\* The number of bits needed to write x >= 0.
RECURSIVE BitLength(_)
BitLength(x) ==
  IF x = 0 THEN 0 ELSE 1 + BitLength(x \div 2)

RECURSIVE Pow2(_)
Pow2(n) ==
  IF n <= 0 THEN 1 ELSE 2 * Pow2(n - 1)

\* __builtin_clz(x) for 0 < x < 2^31, counted in the 32 bits of an unsigned int.
builtin_clz(x) ==
  32 - BitLength(x)

\* The int 1 << count as the x86 shl computes it: the count is taken modulo 32
\* and bit 31 is the sign.
shl_int(count) ==
  IF count % 32 = 31 THEN -2147483647 - 1 ELSE Pow2(count % 32)

\* The values nextPow2(num) can return, for num < 2^31. For num > 1 the int
\* constant 1 is shifted by 64 - clz, which is always more than the 32 bits
\* of an int: the shift is undefined, and a build either masks the count
\* (the x86 shl) or yields 0.
nextPow2(num) ==
  IF num <= 1 THEN {1}
  ELSE {shl_int(64 - builtin_clz(num - 1)), 0}

\* The padded_m of grouped_heuristic_dispatch, given the value pow2 that
\* nextPow2(total_M) returned.
grouped_padded_m(G, pow2) ==
  LET at_least_G == IF pow2 < G THEN G ELSE pow2
  IN  IF at_least_G > 8192 THEN 8192 ELSE at_least_G

\* grouped_heuristic_dispatch, given the value pow2 that nextPow2(total_M)
\* returned.
grouped_heuristic_dispatch(G, pow2, N, K) ==
  LET key == <<G, grouped_padded_m(G, pow2), N, K>>
  IN  FirstMatch(<<
        <<key \in DOMAIN bf16_grouped_lookup_dispatch,
          IF key \in DOMAIN bf16_grouped_lookup_dispatch
          THEN bf16_grouped_lookup_dispatch[key] ELSE NoKernel>>,
        <<TRUE,
          "bf16_grouped_256x128x128x64_32x32_2x2_8x32x1_8x32x1_1x32x1x8_8x8x1_1x1_interwave_v1">>
      >>, 1)

(***************************************************************************)
(* The rowwise entry points                                                *)
(***************************************************************************)

\* A zero check that covers K only.
ZeroDimension_OnlyK(M, N, K) ==
  K = 0

\* Whether the call returns zeros instead of selecting a kernel.
ZeroDimension(M, N, K) ==
  M = 0 \/ N = 0 \/ K = 0

Tensor(sizes, dtype, content) ==
  [has_value |-> TRUE, sizes |-> sizes, dtype |-> dtype, content |-> content]

\* The part of the two wrappers after their argument checks. select is the
\* selection function of the wrapper and OUTPUT_DTYPE its result type.
rowwise_wrapper_body(XQ, WQ, output, select, OUTPUT_DTYPE) ==
  LET M == size_to_dim_(Len(XQ.sizes) - 1, XQ.sizes)
      N == WQ.sizes[1]
      K == WQ.sizes[2]
      out_sizes == [XQ.sizes EXCEPT ![Len(XQ.sizes)] = N]
  IN  IF ZeroDimension(M, N, K)
      THEN Return(Tensor(out_sizes, OUTPUT_DTYPE, "zeros"), output,
                  <<Event("at::zeros", "")>>)
      ELSE IF output.has_value
      THEN LET Y_M == size_to_dim_(Len(output.sizes) - 1, output.sizes)
           IN  IF ~(Y_M = M /\ output.sizes[Len(output.sizes)] = N)
               THEN Raise("Y_M == M && Y.sizes().vec().back() == N", <<>>)
               ELSE IF ~(output.dtype = OUTPUT_DTYPE)
               THEN Raise("Y.dtype() == OUTPUT_DTYPE", <<>>)
               ELSE LET k == IF select = "rowwise_dispatch"
                             THEN rowwise_dispatch(M, N, K).kernel
                             ELSE rowwise_preshuffle_heuristic_dispatch(M, N, K)
                        Y == [output EXCEPT !.content = "computed"]
                    IN  Return(Y, Y, <<Event(select, ""), Event("kernel", k)>>)
      ELSE LET k == IF select = "rowwise_dispatch"
                    THEN rowwise_dispatch(M, N, K).kernel
                    ELSE rowwise_preshuffle_heuristic_dispatch(M, N, K)
           IN  Return(Tensor(out_sizes, OUTPUT_DTYPE, "computed"), output,
                      <<Event("at::empty", ""), Event(select, ""), Event("kernel", k)>>)

\* The argument checks without the one that rejects a bias.
rowwise_wrapper_checks_no_bias(XQ, WQ, x_scale, w_scale, bias, use_fast_accum) ==
  IF ~(XQ.dtype = "float8_e4m3fnuz" /\ WQ.dtype = "float8_e4m3fnuz")
  THEN "Inputs must be type float8_e4m3fnuz."
  ELSE IF ~(x_scale.dtype = "float" /\ w_scale.dtype = "float")
  THEN "Scales must be float32."
  ELSE IF ~use_fast_accum
  THEN "AMD does not support disabling use_fast_accum."
  ELSE IF ~(XQ.is_cuda /\ XQ.is_contiguous)
  THEN "XQ.is_cuda() && XQ.is_contiguous()"
  ELSE IF ~(WQ.is_cuda /\ WQ.is_contiguous)
  THEN "WQ.is_cuda() && WQ.is_contiguous()"
  ELSE ""

\* The argument checks both wrappers start with.
rowwise_wrapper_checks(XQ, WQ, x_scale, w_scale, bias, use_fast_accum) ==
  IF ~(XQ.dtype = "float8_e4m3fnuz" /\ WQ.dtype = "float8_e4m3fnuz")
  THEN "Inputs must be type float8_e4m3fnuz."
  ELSE IF ~(x_scale.dtype = "float" /\ w_scale.dtype = "float")
  THEN "Scales must be float32."
  ELSE IF ~use_fast_accum
  THEN "AMD does not support disabling use_fast_accum."
  ELSE IF ~(~bias.has_value)
  THEN "AMD does not support fused bias."
  ELSE IF ~(XQ.is_cuda /\ XQ.is_contiguous)
  THEN "XQ.is_cuda() && XQ.is_contiguous()"
  ELSE IF ~(WQ.is_cuda /\ WQ.is_contiguous)
  THEN "WQ.is_cuda() && WQ.is_contiguous()"
  ELSE ""

f8f8_rowwise_wrapper(XQ, WQ, x_scale, w_scale, bias, use_fast_accum, output) ==
  LET failed == rowwise_wrapper_checks(XQ, WQ, x_scale, w_scale, bias, use_fast_accum)
  IN  IF failed # "" THEN Raise(failed, <<>>)
      ELSE rowwise_wrapper_body(XQ, WQ, output, "rowwise_dispatch", "bfloat16")

f8f8_rowwise_preshuffle_wrapper(OUTPUT_DTYPE, XQ, WQ, x_scale, w_scale, bias, use_fast_accum, output) ==
  LET failed == rowwise_wrapper_checks(XQ, WQ, x_scale, w_scale, bias, use_fast_accum)
  IN  IF failed # "" THEN Raise(failed, <<>>)
      ELSE rowwise_wrapper_body(XQ, WQ, output,
                                "rowwise_preshuffle_heuristic_dispatch", OUTPUT_DTYPE)


(***************************************************************************)
(* The bf16 GEMM entry point                                               *)
(***************************************************************************)

\* The instantiation bf16_gemm_impl<256, MBLOCK, 128, 64, 16, 16, MPER_WAVE, 4,
\* 2, PADDING>, named by the parameters that vary.
bf16_gemm_instance(MBLOCK, MPER_WAVE, PADDING) ==
  [MBLOCK |-> MBLOCK, MPER_WAVE |-> MPER_WAVE, PADDING |-> PADDING]

bf16_gemm_impl(instance, A, B) ==
  LET M == A.sizes[1]
      N == B.sizes[1]
      K == A.sizes[2]
  IN  IF ~(M >= 128 /\ N >= 128 /\ K >= 256)
      THEN Raise("Minimum supported M,N,K is 128,128,256.", <<>>)
      ELSE Return(Tensor(<<M, N>>, "bfloat16", "computed"), nullopt,
                  <<Event("at::empty", ""), Event("kernel", instance)>>)

bf16_gemm(A, B) ==
  IF ~(A.dtype = "bfloat16" /\ B.dtype = "bfloat16")
  THEN Raise("Inputs must be bfloat16.", <<>>)
  ELSE LET M == A.sizes[1]
           N == B.sizes[1]
           K == A.sizes[2]
           use_padding == (M % 256 # 0) \/ (N % 256 # 0) \/ (K % 256 # 0)
           large == (M >= 8192 /\ N >= 4096) \/ (N >= 8192 /\ M >= 4096)
       IN  IF large
           THEN bf16_gemm_impl(bf16_gemm_instance(256, 8, use_padding), A, B)
           ELSE bf16_gemm_impl(bf16_gemm_instance(128, 4, use_padding), A, B)

(***************************************************************************)
(* The pruned hash map of the CPU embedding operators                      *)
(***************************************************************************)

\* Integers wider than the checker's are written as their bytes, lowest
\* first: a uint32_t is 4 bytes, a uint64_t or an int64_t is 8, and an
\* int32_t is carried sign-extended to 8, as a comparison or an assignment to
\* a wider type sees it.
Byte == 0..255

\* The n lowest bytes of the binary form of v >= 0.
RECURSIVE LowBytes(_, _)
LowBytes(v, n) ==
  IF n = 0 THEN <<>> ELSE <<v % 256>> \o LowBytes(v \div 256, n - 1)

\* The int64_t of value v, for 0 <= v < 2^31.
Int64(v) == LowBytes(v, 8)

\* The int64_t of value hi * 2^32 + lo, for 0 <= hi, lo < 2^31.
Int64HiLo(hi, lo) == LowBytes(lo, 4) \o LowBytes(hi, 4)

MinusOne == [i \in 1..8 |-> 255]

\* static_cast to a type of 4 or 8 bytes: the low bytes are kept and, for
\* int32_t, the sign is extended again.
static_cast(type, v) ==
  IF type = "long" THEN v
  ELSE [i \in 1..8 |-> IF i <= 4 THEN v[i] ELSE IF v[4] >= 128 THEN 255 ELSE 0]

\* static_cast to uint32_t or uint64_t: the 4 or 8 low bytes.
static_cast_unsigned(type, v) ==
  IF type = "long" THEN v ELSE SubSeq(v, 1, 4)

\* a ^ b of two bytes, bit by bit.
RECURSIVE XorBits(_, _, _)
XorBits(a, b, bits) ==
  IF bits = 0 THEN 0
  ELSE ((a + b) % 2) + 2 * XorBits(a \div 2, b \div 2, bits - 1)

\* h ^ k
BitXor(h, k) == [i \in DOMAIN h |-> XorBits(h[i], k[i], 8)]

\* h >> s of an unsigned integer.
ShiftRight(h, s) ==
  LET q == s \div 8
      r == s % 8
      at(i) == IF i \in DOMAIN h THEN h[i] ELSE 0
  IN  [i \in DOMAIN h |->
         (at(i + q) \div (2 ^ r)) + ((at(i + q + 1) % (2 ^ r)) * (2 ^ (8 - r)))]

\* The sum of the byte products that make byte i of h * k, before carries.
RECURSIVE Column(_, _, _, _)
Column(h, k, i, j) ==
  IF j = 0 THEN 0 ELSE (h[j] * k[i + 1 - j]) + Column(h, k, i, j - 1)

\* The bytes of h * k from byte i on, with the carry that came in.
RECURSIVE Carry(_, _, _, _)
Carry(h, k, i, carry) ==
  IF i > Len(h) THEN <<>>
  ELSE LET total == Column(h, k, i, i) + carry
       IN  <<total % 256>> \o Carry(h, k, i + 1, total \div 256)

\* h * k of two unsigned integers of the same width, modulo 2^width.
Multiply(h, k) == Carry(h, k, 1, 0)

\* h % capacity for an unsigned h and 0 < capacity < 2^22.
RECURSIVE Modulo(_, _, _)
Modulo(h, capacity, i) ==
  IF i = 0 THEN 0
  ELSE (((Modulo(h, capacity, i - 1) * 256) + h[Len(h) + 1 - i]) % capacity)

\* The two overloads of pruned_hash_function: the MurmurHash3 mixing function
\* of 32 bits for a uint32_t and of 64 bits for a uint64_t.
pruned_hash_function(k) ==
  IF Len(k) = 4
  THEN LET h1 == BitXor(k, ShiftRight(k, 16))
           h2 == Multiply(h1, <<107, 202, 235, 133>>)
           h3 == BitXor(h2, ShiftRight(h2, 13))
           h4 == Multiply(h3, <<53, 174, 178, 194>>)
       IN  BitXor(h4, ShiftRight(h4, 16))
  ELSE LET k1 == BitXor(k, ShiftRight(k, 33))
           k2 == Multiply(k1, <<205, 140, 85, 237, 215, 175, 81, 255>>)
           k3 == BitXor(k2, ShiftRight(k2, 33))
           k4 == Multiply(k3, <<83, 236, 133, 26, 254, 185, 206, 196>>)
       IN  BitXor(k4, ShiftRight(k4, 33))

\* pruned_hash_function(static_cast<uidx_t>(idx)) % capacity
first_slot(index_t, idx, capacity) ==
  LET h == pruned_hash_function(static_cast_unsigned(index_t, idx))
  IN  Modulo(h, capacity, Len(h))

\* A hash table tensor of n slots, every slot (sparse index, dense index)
\* holding -1, of element type int or long.
EmptyHashTable(scalar_type, n) ==
  [scalar_type |-> scalar_type, acc |-> [i \in 1..n |-> <<MinusOne, MinusOne>>]]

\* What a call made of the table and whether it came back: "ok", "error" for
\* a failed TORCH_CHECK, "diverged" for a probe loop that never leaves.
HashResult(status, acc, dense_indices) ==
  [status |-> status, acc |-> acc, dense_indices |-> dense_indices]

\* const int32_t T = hash_table_offsets.size(0) - 1;
hash_T(a) == Len(a.hash_table_offsets) - 1

\* const int32_t B = (offsets.size(0) - 1) / T;
hash_B(a) == (Len(a.offsets) - 1) \div hash_T(a)

\* The while (true) loop of pruned_hashmap_insert for one index.  The loop
\* changes the table only as it leaves, so after one probe of every slot
\* without leaving it goes round the same slots forever: probes_left counts
\* down to that point.
RECURSIVE insert_probe(_, _, _, _, _, _, _, _)
insert_probe(acc, hash_t, table_start, capacity, slot, idx, dense_idx, probes_left) ==
  LET ht_idx == table_start + slot
      slot_sparse_idx == acc[ht_idx + 1][1]
  IN  IF probes_left = 0 THEN HashResult("diverged", acc, <<>>)
      ELSE IF slot_sparse_idx = MinusOne
      THEN HashResult("ok",
             [acc EXCEPT ![ht_idx + 1] =
                <<static_cast(hash_t, idx), static_cast(hash_t, dense_idx)>>], <<>>)
      ELSE IF slot_sparse_idx = idx
      THEN HashResult("ok",
             [acc EXCEPT ![ht_idx + 1][2] = static_cast(hash_t, dense_idx)], <<>>)
      ELSE insert_probe(acc, hash_t, table_start, capacity,
                        (slot + 1) % capacity, idx, dense_idx, probes_left - 1)

\* The loops of pruned_hashmap_insert over the tables t, the batch rows b and
\* the indices l of a row, from (t, b, l) on.
RECURSIVE insert_loop(_, _, _, _, _, _)
insert_loop(st, hash_t, a, t, b, l) ==
  IF st.status # "ok" \/ t >= hash_T(a) THEN st
  ELSE
    LET table_start == a.hash_table_offsets[t + 1]
        table_end == a.hash_table_offsets[t + 2]
        capacity == table_end - table_start
        indices_start == a.offsets[(t * hash_B(a)) + b + 1]
        indices_end == a.offsets[(t * hash_B(a)) + b + 2]
        L == indices_end - indices_start
        idx == a.indices[indices_start + l + 1]
        dense_idx == a.dense_indices[indices_start + l + 1]
    IN  IF table_start = table_end \/ b >= hash_B(a)
        THEN insert_loop(st, hash_t, a, t + 1, 0, 0)
        ELSE IF l >= L THEN insert_loop(st, hash_t, a, t, b + 1, 0)
        ELSE IF dense_idx = MinusOne THEN insert_loop(st, hash_t, a, t, b, l + 1)
        ELSE insert_loop(
               insert_probe(st.acc, hash_t, table_start, capacity,
                            first_slot(a.index_t, idx, capacity), idx, dense_idx,
                            capacity),
               hash_t, a, t, b, l + 1)

\* pruned_hashmap_insert_{{ wdesc }}_cpu on a table of element type hash_t.
pruned_hashmap_insert_cpu(a, hash_t, acc) ==
  IF hash_T(a) = 0 THEN HashResult("undefined", acc, <<>>)
  ELSE IF ~(hash_B(a) > 0) THEN HashResult("error", acc, <<>>)
  ELSE insert_loop(HashResult("ok", acc, <<>>), hash_t, a, 0, 0, 0)

\* The while (true) loop of pruned_hashmap_lookup for one index: the dense
\* index it stores, unless it never leaves.
RECURSIVE lookup_probe(_, _, _, _, _, _, _)
lookup_probe(acc, index_t, table_start, capacity, slot, idx, probes_left) ==
  LET ht_idx == table_start + slot
      slot_sparse_idx == acc[ht_idx + 1][1]
  IN  IF probes_left = 0 THEN [status |-> "diverged"]
      ELSE IF slot_sparse_idx = MinusOne THEN [status |-> "ok", dense_idx |-> MinusOne]
      ELSE IF slot_sparse_idx = idx
      THEN [status |-> "ok", dense_idx |-> static_cast(index_t, acc[ht_idx + 1][2])]
      ELSE lookup_probe(acc, index_t, table_start, capacity,
                        (slot + 1) % capacity, idx, probes_left - 1)

\* auto dense_indices = empty_like(indices): no element holds a value yet.
empty_like(indices) == [i \in DOMAIN indices |-> <<>>]

\* The loops of pruned_hashmap_lookup from (t, b, l) on.
RECURSIVE lookup_loop(_, _, _, _, _)
lookup_loop(st, a, t, b, l) ==
  IF st.status # "ok" \/ t >= hash_T(a) THEN st
  ELSE
    LET table_start == a.hash_table_offsets[t + 1]
        table_end == a.hash_table_offsets[t + 2]
        capacity == table_end - table_start
        indices_start == a.offsets[(t * hash_B(a)) + b + 1]
        indices_end == a.offsets[(t * hash_B(a)) + b + 2]
        L == indices_end - indices_start
        idx == a.indices[indices_start + l + 1]
        found == IF table_start = table_end
                 THEN [status |-> "ok", dense_idx |-> idx]
                 ELSE lookup_probe(st.acc, a.index_t, table_start, capacity,
                                   first_slot(a.index_t, idx, capacity), idx,
                                   capacity)
    IN  IF b >= hash_B(a) THEN lookup_loop(st, a, t + 1, 0, 0)
        ELSE IF l >= L THEN lookup_loop(st, a, t, b + 1, 0)
        ELSE IF found.status = "diverged"
        THEN HashResult("diverged", st.acc, st.dense_indices)
        ELSE lookup_loop(
               HashResult("ok", st.acc,
                          [st.dense_indices EXCEPT
                             ![indices_start + l + 1] = found.dense_idx]),
               a, t, b, l + 1)

\* pruned_hashmap_lookup_{{ wdesc }}_cpu
pruned_hashmap_lookup_cpu(a, acc) ==
  IF hash_T(a) = 0 THEN HashResult("undefined", acc, <<>>)
  ELSE IF ~(hash_B(a) > 0) THEN HashResult("error", acc, <<>>)
  ELSE lookup_loop(HashResult("ok", acc, empty_like(a.indices)), a, 0, 0, 0)
(***************************************************************************)
(* Grouped argument setup on the device                                    *)
(***************************************************************************)

nullptr == [has_value |-> FALSE]

DevicePtr(data) == [has_value |-> TRUE, data |-> data]

\* A GroupedGemmKernelArgument<2>. The pointers A, B, Ds and E are written as
\* element offsets from the base pointers XQ, WQ, w_scale, x_scale and output.
KernelArguments(A, B, D0, D1, E, M, N, K, StrideA, StrideB, StrideE) ==
  [A |-> A, B |-> B, Ds |-> <<D0, D1>>, E |-> E, M |-> M, N |-> N, K |-> K,
   StrideA |-> StrideA, StrideB |-> StrideB, StrideDs |-> <<0, 0>>,
   StrideE |-> StrideE]

\* A record of the argument buffer that at::empty allocated and nothing has
\* written: its content is arbitrary, and no step of the model reads it.
unwritten_args ==
  KernelArguments(-1, -1, -1, -1, -1, -1, -1, -1, -1, -1, -1)

default_group_args ==
  KernelArguments(0, 0, 0, 0, 0, 0, 0, 0, 0, 0, 0)

\* What the shared counter may hold when the block starts.
SharedMemoryGarbage == {0, 3}

NoLaunch == [kernel |-> "none"]

\* No output buffer is followed.
NoOutput == [alloc |-> "none"]

\* The launch of an argument-setup kernel <<<1, group_count>>>.
Launch(kernel, M_sizes, offsets, M, N, K, group_count, input_type) ==
  [kernel |-> kernel, M_sizes |-> M_sizes, offsets |-> offsets, M |-> M,
   N |-> N, K |-> K, group_count |-> group_count, input_type |-> input_type]

\* The sum of the first n + 1 elements of s: the group's own size included.
RECURSIVE offset_M_loop_inclusive(_, _)
offset_M_loop_inclusive(s, n) ==
  IF n = 0 THEN s[1] ELSE offset_M_loop_inclusive(s, n - 1) + s[n + 1]

\* The sum of the first n elements of s.
RECURSIVE offset_M_loop(_, _)
offset_M_loop(s, n) ==
  IF n = 0 THEN 0 ELSE offset_M_loop(s, n - 1) + s[n]

\* Every group starts at 0.
previous_offset_none(offsets, thread_idx) == 0

\* offsets[thread_idx - 1], or 0 for the first thread. Threads are numbered
\* from 0 and sequences from 1.
previous_offset(offsets, thread_idx) ==
  IF thread_idx = 0 THEN 0 ELSE offsets[thread_idx]

Group(M_group, N_group, K_group, XQ_offset, WQ_offset, x_scale_offset, w_scale_offset, output_offset) ==
  [M_group |-> M_group, N_group |-> N_group, K_group |-> K_group,
   XQ_offset |-> XQ_offset, WQ_offset |-> WQ_offset,
   x_scale_offset |-> x_scale_offset, w_scale_offset |-> w_scale_offset,
   output_offset |-> output_offset]

\* One output block shared by all groups.
output_offset_shared(thread_idx, M, N) == 0

\* The output offset of a group of 2D-2D inputs: its own block of M x N values.
output_offset_2D2D(thread_idx, M, N) == thread_idx * M * N

\* The problem size and the offsets that thread thread_idx of set_kernel_args
\* resolves for its group. On the M_sizes path the offsets of an empty group
\* stay unset (-1 here); they are not read, since the group is skipped.
set_kernel_args_group(l, thread_idx) ==
  LET M == l.M
      N == l.N
      K == l.K
  IN  IF l.M_sizes.has_value
      THEN LET M_group  == l.M_sizes.data[thread_idx + 1]
               offset_M == offset_M_loop(l.M_sizes.data, thread_idx)
           IN  IF M_group > 0
               THEN Group(M_group, N, K, offset_M * K, thread_idx * N * K,
                          offset_M, thread_idx * N, offset_M * N)
               ELSE Group(M_group, N, K, -1, -1, -1, -1, -1)
      ELSE IF l.input_type = "_2D3D"
      THEN LET offset_M == previous_offset(l.offsets.data, thread_idx)
           IN  Group(l.offsets.data[thread_idx + 1] - offset_M, N, K,
                     offset_M * K, thread_idx * N * K, offset_M,
                     thread_idx * N, offset_M * N)
      ELSE IF l.input_type = "_3D2D"
      THEN LET offset_N == previous_offset(l.offsets.data, thread_idx)
           IN  Group(M, l.offsets.data[thread_idx + 1] - offset_N, K,
                     thread_idx * M * K, offset_N * K, thread_idx * M,
                     offset_N, offset_N)
      ELSE IF l.input_type = "_2D2D"
      THEN LET offset_K == previous_offset(l.offsets.data, thread_idx)
           IN  Group(M, N, l.offsets.data[thread_idx + 1] - offset_K,
                     offset_K, offset_K, thread_idx * M, thread_idx * N,
                     output_offset_2D2D(thread_idx, M, N))
      ELSE Group(M, N, K, thread_idx * M * K, thread_idx * N * K,
                 thread_idx * M, thread_idx * N, thread_idx * M * N)

\* A test of M alone.
GroupNonZero_OnlyM(M_group, N_group, K_group) ==
  M_group > 0

\* The test that guards the slot and the record of a group.
GroupNonZero(M_group, N_group, K_group) ==
  M_group > 0 /\ N_group > 0 /\ K_group > 0

\* The record set_kernel_args writes for a nonzero group.
kernel_group_args(l, g) ==
  KernelArguments(g.XQ_offset, g.WQ_offset, g.w_scale_offset, g.x_scale_offset,
                  g.output_offset, g.M_group, g.N_group, g.K_group,
                  l.K, l.K, l.N)

\* The record set_kernel_args_m_sizes_kernel writes for group thread_idx.
m_sizes_kernel_group_args(l, thread_idx) ==
  LET kernel_M == l.M_sizes.data[thread_idx + 1]
      offset_M == offset_M_loop(l.M_sizes.data, thread_idx)
  IN  KernelArguments(offset_M * l.K, thread_idx * l.N * l.K, 0, 0,
                      offset_M * l.N, kernel_M, l.N, l.K, l.K, l.K, l.N)

Threads == DOMAIN pc

host ==
  <<op, args, phase, ret, FBGEMM_AUTOTUNE_ENABLE, cache, calls, history,
    hash_table, output_data>>

\* set_kernel_args up to its barrier: the first thread clears the shared
\* counter and every thread writes the default record to its own slot.
set_kernel_args_default(thread_idx) ==
  /\ launch.kernel = "set_kernel_args"
  /\ pc[thread_idx] = "start"
  /\ non_zero_counter' = IF thread_idx = 0 THEN 0 ELSE non_zero_counter
  /\ kernel_args' = [kernel_args EXCEPT ![thread_idx] = default_group_args]
  /\ pc' = [pc EXCEPT ![thread_idx] = "__syncthreads"]
  /\ UNCHANGED <<launch, non_zero_idx, output_memory>>
  /\ UNCHANGED host

\* A barrier that lets the threads that have reached it go on without the rest.
syncthreads_partial ==
  /\ launch.kernel = "set_kernel_args"
  /\ \E t \in Threads : pc[t] = "__syncthreads"
  /\ pc' = [t \in Threads |-> IF pc[t] = "__syncthreads" THEN "resolve" ELSE pc[t]]
  /\ UNCHANGED <<launch, non_zero_counter, kernel_args, non_zero_idx, output_memory>>
  /\ UNCHANGED host

\* The barrier releases the threads once all of them have reached it.
syncthreads ==
  /\ launch.kernel = "set_kernel_args"
  /\ Threads # {}
  /\ \A t \in Threads : pc[t] = "__syncthreads"
  /\ pc' = [t \in Threads |-> "resolve"]
  /\ UNCHANGED <<launch, non_zero_counter, kernel_args, non_zero_idx, output_memory>>
  /\ UNCHANGED host

\* A read and a write of the counter that loses the addition.
atomicAdd_lost(address, val) == [old |-> address, new |-> address]

\* atomicAdd on the value at an address: the value it returns and the value it
\* leaves, in one step.
atomicAdd(address, val) == [old |-> address, new |-> address + val]

\* set_kernel_args after its barrier: the thread of a nonzero group takes the
\* counter's value with atomicAdd and writes its record to that slot.
set_kernel_args_write(thread_idx) ==
  /\ launch.kernel = "set_kernel_args"
  /\ pc[thread_idx] = "resolve"
  /\ LET g == set_kernel_args_group(launch, thread_idx)
     IN  IF GroupNonZero(g.M_group, g.N_group, g.K_group)
         THEN /\ non_zero_idx' = [non_zero_idx EXCEPT
                                     ![thread_idx] = atomicAdd(non_zero_counter, 1).old]
              /\ non_zero_counter' = atomicAdd(non_zero_counter, 1).new
              /\ kernel_args' = [kernel_args EXCEPT
                                   ![atomicAdd(non_zero_counter, 1).old] =
                                     kernel_group_args(launch, g)]
         ELSE UNCHANGED <<non_zero_idx, non_zero_counter, kernel_args>>
  /\ pc' = [pc EXCEPT ![thread_idx] = "done"]
  /\ UNCHANGED <<launch, output_memory>>
  /\ UNCHANGED host

\* A thread of set_kernel_args_m_sizes_kernel.
set_kernel_args_m_sizes_kernel(thread_idx) ==
  /\ launch.kernel = "set_kernel_args_m_sizes_kernel"
  /\ pc[thread_idx] = "start"
  /\ kernel_args' = [kernel_args EXCEPT
                       ![thread_idx] = m_sizes_kernel_group_args(launch, thread_idx)]
  /\ pc' = [pc EXCEPT ![thread_idx] = "done"]
  /\ UNCHANGED <<launch, non_zero_counter, non_zero_idx, output_memory>>
  /\ UNCHANGED host


(***************************************************************************)
(* Argument setup of the dynamic grouped operators on the device           *)
(***************************************************************************)

\* The launch of a setup kernel of the dynamic operators: numBlocks blocks of
\* blockSize threads. prepad_M is the caller's zero_start_index_M.
LaunchFixedNK(kernel, prepad_M, M, N, K, group_count, numBlocks, blockSize) ==
  [kernel |-> kernel, prepad_M |-> prepad_M, M |-> M, N |-> N, K |-> K,
   group_count |-> group_count, numBlocks |-> numBlocks, blockSize |-> blockSize]

\* An output buffer: how it was allocated, what its memory held then, and the
\* offsets of the blocks of 8 values that were stored as zeros since.
Output(alloc, fresh) == [alloc |-> alloc, fresh |-> fresh, zeroed |-> {}]

\* What memory that at::empty hands out may hold.
UninitializedMemory == {"zero", "stale"}

\* The record the fp8 kernels set_kernel_args_fixed_nk_kernel and
\* set_kernel_args_fixed_nk_kernel_zeroing write for group thread_idx.
fixed_nk_group_args(l, thread_idx) ==
  LET group_M == l.prepad_M.data[thread_idx + 1]
  IN  KernelArguments(thread_idx * l.M * l.K, thread_idx * l.N * l.K,
                      thread_idx * l.N, thread_idx * l.M,
                      thread_idx * l.M * l.N, group_M, l.N, l.K, l.K, l.K, l.N)

\* The record the bf16 kernel set_kernel_args_fixed_nk_kernel writes.
bf16_fixed_nk_group_args(l, group_idx) ==
  LET group_M == l.prepad_M.data[group_idx + 1]
  IN  KernelArguments(group_idx * l.M * l.K, group_idx * l.N * l.K, 0, 0,
                      group_idx * l.M * l.N, group_M, l.N, l.K, l.K, l.K, l.N)

\* The offsets of the blocks of 8 output values that thread thread_idx of
\* set_kernel_args_fixed_nk_kernel_zeroing stores as zeros: its own block when
\* that lies in a row at or after the group's zero_start_index_M.
fixed_nk_zeroing_store(l, thread_idx) ==
  LET output_offset == thread_idx * 8
      current_group == output_offset \div (l.M * l.N)
  IN  IF current_group < l.group_count
      THEN LET nonzeros == l.prepad_M.data[current_group + 1]
               current_M == (output_offset % (l.M * l.N)) \div l.N
           IN  IF current_M >= nonzeros THEN {output_offset} ELSE {}
      ELSE {}

\* The threads of a block.
BlockThreads(l, block) ==
  (block * l.blockSize)..(block * l.blockSize + l.blockSize - 1)

\* A thread of the fp8 kernel set_kernel_args_fixed_nk_kernel.
set_kernel_args_fixed_nk_kernel(thread_idx) ==
  /\ launch.kernel = "set_kernel_args_fixed_nk_kernel"
  /\ pc[thread_idx] = "start"
  /\ kernel_args' = [kernel_args EXCEPT
                       ![thread_idx] = fixed_nk_group_args(launch, thread_idx)]
  /\ pc' = [pc EXCEPT ![thread_idx] = "done"]
  /\ UNCHANGED <<launch, non_zero_counter, non_zero_idx, output_memory>>
  /\ UNCHANGED host

\* A thread of the bf16 kernel set_kernel_args_fixed_nk_kernel.
bf16_set_kernel_args_fixed_nk_kernel(group_idx) ==
  /\ launch.kernel = "bf16 set_kernel_args_fixed_nk_kernel"
  /\ pc[group_idx] = "start"
  /\ kernel_args' = [kernel_args EXCEPT
                       ![group_idx] = bf16_fixed_nk_group_args(launch, group_idx)]
  /\ pc' = [pc EXCEPT ![group_idx] = "done"]
  /\ UNCHANGED <<launch, non_zero_counter, non_zero_idx, output_memory>>
  /\ UNCHANGED host

\* A block of set_kernel_args_fixed_nk_kernel_zeroing. Its threads do not
\* synchronise and write to places of their own, so the block is one step: the
\* threads below group_count write the record of their group, and every thread
\* stores its block of zeros. Here pc follows the blocks.
set_kernel_args_fixed_nk_kernel_zeroing(block) ==
  /\ launch.kernel = "set_kernel_args_fixed_nk_kernel_zeroing"
  /\ pc[block] = "start"
  /\ kernel_args' =
       [g \in DOMAIN kernel_args |->
          IF g \in BlockThreads(launch, block)
          THEN fixed_nk_group_args(launch, g) ELSE kernel_args[g]]
  /\ output_memory' =
       [output_memory EXCEPT
          !.zeroed = @ \cup UNION {fixed_nk_zeroing_store(launch, thread_idx) :
                                     thread_idx \in BlockThreads(launch, block)}]
  /\ pc' = [pc EXCEPT ![block] = "done"]
  /\ UNCHANGED <<launch, non_zero_counter, non_zero_idx>>
  /\ UNCHANGED host
(***************************************************************************)
(* Grouped operators on the host                                           *)
(***************************************************************************)

numel(t) == size_to_dim_(Len(t.sizes), t.sizes)

\* std::to_string of a number that is not negative.
RECURSIVE to_string(_)
to_string(n) ==
  LET digit == <<"0", "1", "2", "3", "4", "5", "6", "7", "8", "9">>[(n % 10) + 1]
  IN  IF n < 10 THEN digit ELSE to_string(n \div 10) \o digit

\* What a grouped call hands back: its result and the setup kernel it
\* launched, and the tuning cache it leaves if it may use one.
Host(r, l) == [ret |-> r, launch |-> l]

HostTuned(r, l, tuning) == [ret |-> r, launch |-> l, cache |-> tuning]

\* The result of a grouped call that selected a kernel and invoked it.
Selected(out, tr, by, M, N, K, found, kernel) ==
  [status |-> "ok", err |-> "", value |-> out, output |-> out, trace |-> tr,
   selection |-> [by |-> by, M |-> M, N |-> N, K |-> K,
                  shape_key |-> found.shape_key, measured |-> found.measured,
                  kernel |-> kernel]]

validate_inputs_common(XQ, WQ, x_scale, w_scale) ==
  IF ~(XQ.is_cuda /\ XQ.is_contiguous)
  THEN "XQ.is_cuda() && XQ.is_contiguous()"
  ELSE IF ~(WQ.is_cuda /\ WQ.is_contiguous)
  THEN "WQ.is_cuda() && WQ.is_contiguous()"
  ELSE IF ~x_scale.is_cuda
  THEN "x_scale.is_cuda()"
  ELSE IF ~w_scale.is_cuda
  THEN "w_scale.is_cuda()"
  ELSE IF ~(XQ.dtype = "float8_e4m3fnuz")
  THEN "Input XQ must be type float8_e4m3fnuz"
  ELSE IF ~(WQ.dtype = "float8_e4m3fnuz")
  THEN "Input WQ must be type float8_e4m3fnuz"
  ELSE IF ~(x_scale.dtype = "float" /\ w_scale.dtype = "float")
  THEN "Scales must be float32."
  ELSE ""

\* The heuristic of the fp8 grouped kernels: the kernel it picks for a shape.
get_kernel_via_heuristic(M, N, K) ==
  "get_kernel_via_heuristic(" \o to_string(M) \o ", " \o to_string(N) \o ", "
     \o to_string(K) \o ")"

rowwise_grouped_heuristic_dispatch(G, total_M, N, K) ==
  "rowwise_grouped_heuristic_dispatch(" \o to_string(G) \o ", "
     \o to_string(total_M) \o ", " \o to_string(N) \o ", " \o to_string(K) \o ")"

\* The kernels the tuning cache measures, in catalog order.
get_fp8_rowwise_grouped_kernels ==
  <<"fp8_rowwise_grouped_kernels[0]", "fp8_rowwise_grouped_kernels[1]">>

\* The smallest power of two that is at least x.
RECURSIVE nextPowerOf2_from(_, _)
nextPowerOf2_from(p, x) ==
  IF p >= x THEN p ELSE nextPowerOf2_from(2 * p, x)

nextPowerOf2(x) == nextPowerOf2_from(1, x)

EmptyCache == [key \in {} |-> NoKernel]

\* TuningCache::findBestKernelMaybeAutotune: the kernel cached under the key
\* or, when there is none, the candidate measured fastest, which it stores.
findBestKernelMaybeAutotune(tuning, shape_key, kernels, fastest) ==
  IF shape_key \in DOMAIN tuning
  THEN [kernel |-> tuning[shape_key], cache |-> tuning,
        shape_key |-> shape_key, measured |-> 0]
  ELSE [kernel |-> fastest, cache |-> tuning @@ (shape_key :> fastest),
        shape_key |-> shape_key, measured |-> Len(kernels)]

shape_key(M, N, K) ==
  to_string(M) \o "_" \o to_string(N) \o "_" \o to_string(K)

\* A key made of the sizes as they are.
get_kernel_via_tuning_unrounded(M, N, K, tuning, fastest) ==
  findBestKernelMaybeAutotune(
    tuning, shape_key(M, N, K), get_fp8_rowwise_grouped_kernels, fastest)

\* fastest is the candidate that measures fastest should the cache measure.
get_kernel_via_tuning(M, N, K, tuning, fastest) ==
  findBestKernelMaybeAutotune(
    tuning, shape_key(nextPowerOf2(M), nextPowerOf2(N), nextPowerOf2(K)),
    get_fp8_rowwise_grouped_kernels, fastest)

\* A kernel that was selected without the tuning cache.
NotTuned(kernel) == [kernel |-> kernel, shape_key |-> "", measured |-> 0]

Topology(err, G, M, N, K, inputType) ==
  [err |-> err, G |-> G, M |-> M, N |-> N, K |-> K, inputType |-> inputType]

Rejected(msg) == Topology(msg, 0, 0, 0, 0, "")

\* The topology f8f8bf16_rowwise_grouped_mm reads off its operands, with the
\* first of its shape checks that fails.
grouped_mm_topology(XQ, WQ, x_scale, w_scale, offsets, out) ==
  LET XQ_dim == Len(XQ.sizes)
      WQ_dim == Len(WQ.sizes)
  IN
  IF XQ_dim = 2 /\ WQ_dim = 3 THEN
    IF ~offsets.has_value THEN Rejected("Must pass offsets for 2D input XQ.")
    ELSE IF ~(offsets.dtype = "int") THEN Rejected("offsets must be int32.")
    ELSE LET G == offsets.sizes[1]
             M == XQ.sizes[1]
             N == WQ.sizes[2]
             K == WQ.sizes[3]
         IN  IF ~(XQ.sizes[2] = K /\ WQ.sizes[1] = G)
             THEN Rejected("XQ shape must be (total_M, K) and WQ shape must be (G, N, K).")
             ELSE IF ~(x_scale.sizes[1] = M)
             THEN Rejected("x_scale shape must be (total_M).")
             ELSE IF ~(w_scale.sizes[1] = G /\ w_scale.sizes[2] = N)
             THEN Rejected("w_scale shape must be (G, N).")
             ELSE IF ~(Len(out.sizes) = 2 /\ out.sizes[1] = M /\ out.sizes[2] = N)
             THEN Rejected("out shape must be (total_M, N).")
             ELSE Topology("", G, M, N, K, "_2D3D")
  ELSE IF XQ_dim = 3 /\ WQ_dim = 2 THEN
    IF ~offsets.has_value THEN Rejected("Must pass offsets for 2D input WQ.")
    ELSE IF ~(offsets.dtype = "int") THEN Rejected("offsets must be int32.")
    ELSE LET G == offsets.sizes[1]
             M == XQ.sizes[2]
             N == WQ.sizes[1]
             K == WQ.sizes[2]
         IN  IF ~(XQ.sizes[1] = G /\ XQ.sizes[3] = K)
             THEN Rejected("XQ shape must be (G, M, K) and WQ shape must be (total_N, K).")
             ELSE IF ~(x_scale.sizes[1] = G /\ x_scale.sizes[2] = M)
             THEN Rejected("x_scale shape must be (G, M).")
             ELSE IF ~(w_scale.sizes[1] = N)
             THEN Rejected("w_scale shape must be (total_N).")
             ELSE IF ~(Len(out.sizes) = 2 /\ out.sizes[1] = M /\ out.sizes[2] = N)
             THEN Rejected("out shape must be (M, total_N).")
             ELSE Topology("", G, M, N, K, "_3D2D")
  ELSE IF XQ_dim = 3 /\ WQ_dim = 3 THEN
    IF ~(~offsets.has_value)
    THEN Rejected("Offsets should not be passed for 3D-3D inputs.")
    ELSE LET G == XQ.sizes[1]
             M == XQ.sizes[2]
             N == WQ.sizes[2]
             K == XQ.sizes[3]
         IN  IF ~(WQ.sizes[1] = G /\ WQ.sizes[3] = K)
             THEN Rejected("XQ shape must be (G, M, K) and WQ shape must be (G, N, K).")
             ELSE IF ~(x_scale.sizes[1] = G /\ x_scale.sizes[2] = M)
             THEN Rejected("x_scale shape must be (G, M).")
             ELSE IF ~(w_scale.sizes[1] = G /\ w_scale.sizes[2] = N)
             THEN Rejected("w_scale shape must be (G, N).")
             ELSE IF ~(Len(out.sizes) = 3 /\ out.sizes[1] = G /\ out.sizes[2] = M
                         /\ out.sizes[3] = N)
             THEN Rejected("out shape must be (G, M, N).")
             ELSE Topology("", G, M, N, K, "_3D3D")
  ELSE IF XQ_dim = 2 /\ WQ_dim = 2 THEN
    IF ~offsets.has_value THEN Rejected("Must pass offsets for 2D inputs XQ and WQ.")
    ELSE IF ~(offsets.dtype = "int") THEN Rejected("offsets must be int32.")
    ELSE LET G == offsets.sizes[1]
             M == XQ.sizes[1]
             N == WQ.sizes[1]
             K == XQ.sizes[2]
         IN  IF ~(WQ.sizes[2] = K)
             THEN Rejected("XQ shape must be (M, total_K) and WQ shape must be (N, total_K).")
             ELSE IF ~(x_scale.sizes[1] = G * M)
             THEN Rejected("x_scale shape must be (G * M).")
             ELSE IF ~(w_scale.sizes[1] = G * N)
             THEN Rejected("w_scale shape must be (G * N).")
             ELSE IF ~(Len(out.sizes) = 3 /\ out.sizes[1] = G /\ out.sizes[2] = M
                         /\ out.sizes[3] = N)
             THEN Rejected("out shape must be (G, M, N).")
             ELSE Topology("", G, M, N, K, "_2D2D")
  ELSE Rejected("Invalid input shapes. Must be one of 2D-2D, 3D-3D, 2D-3D, 3D-2D.")

\* The early exit of f8f8bf16_rowwise_grouped_mm.
grouped_mm_early_exit(out, t) ==
  numel(out) = 0

\* The shape the selection sees: the dynamic dimension divided by G.
grouped_mm_normalize(t) ==
  IF t.inputType = "_2D3D" THEN [t EXCEPT !.M = t.M \div t.G]
  ELSE IF t.inputType = "_3D2D" THEN [t EXCEPT !.N = t.N \div t.G]
  ELSE IF t.inputType = "_2D2D" THEN [t EXCEPT !.K = t.K \div t.G]
  ELSE t

\* A lookup that finds the variable whether it is defined or not.
std_getenv_found(defined) == TRUE

\* std::getenv as a condition: its result is not null when the environment
\* defines the variable.
std_getenv(defined) == defined

\* autotune tells whether the environment defines FBGEMM_AUTOTUNE_ENABLE.
f8f8bf16_rowwise_grouped_mm(XQ, WQ, x_scale, w_scale, offsets, out, autotune, tuning, fastest) ==
  LET invalid == validate_inputs_common(XQ, WQ, x_scale, w_scale)
  IN  IF invalid # "" THEN HostTuned(Raise(invalid, <<>>), NoLaunch, tuning)
      ELSE
      LET t == grouped_mm_topology(XQ, WQ, x_scale, w_scale, offsets, out)
      IN  IF t.err # "" THEN HostTuned(Raise(t.err, <<>>), NoLaunch, tuning)
          ELSE IF grouped_mm_early_exit(out, t)
          THEN HostTuned(Return(out, out, <<>>), NoLaunch, tuning)
          ELSE IF t.G = 0 /\ t.inputType \in {"_2D3D", "_3D2D", "_2D2D"}
          THEN HostTuned(
                 DivisionByZero("/= G", <<Event("set_kernel_args", t.G)>>),
                 Launch("set_kernel_args", nullptr,
                        IF offsets.has_value THEN DevicePtr(offsets.data) ELSE nullptr,
                        t.M, t.N, t.K, t.G, t.inputType),
                 tuning)
          ELSE
          LET l == Launch("set_kernel_args", nullptr,
                          IF offsets.has_value THEN DevicePtr(offsets.data) ELSE nullptr,
                          t.M, t.N, t.K, t.G, t.inputType)
              s == grouped_mm_normalize(t)
              found == IF std_getenv(autotune)
                       THEN get_kernel_via_tuning(s.M, s.N, s.K, tuning, fastest)
                       ELSE NotTuned(get_kernel_via_heuristic(s.M, s.N, s.K))
              by == IF std_getenv(autotune) THEN "get_kernel_via_tuning"
                    ELSE "get_kernel_via_heuristic"
              Y == [out EXCEPT !.content = "computed"]
          IN  HostTuned(Selected(Y, <<Event("set_kernel_args", t.G), Event(by, ""),
                                 Event("kernel", found.kernel)>>,
                            by, s.M, s.N, s.K, found, found.kernel),
                   l, IF std_getenv(autotune) THEN found.cache ELSE tuning)

\* A test that lets both descriptors pass.
one_descriptor_at_least(zero_start_index_M, M_sizes) ==
  zero_start_index_M.has_value \/ M_sizes.has_value

\* Exactly one of the two descriptors of set_dynamic_kernel_args is there.
one_descriptor(zero_start_index_M, M_sizes) ==
  zero_start_index_M.has_value # M_sizes.has_value

\* std::min and std::max.
std_min(a, b) == IF a < b THEN a ELSE b

std_max(a, b) == IF a > b THEN a ELSE b

\* set_dynamic_kernel_args of the fp8 grouped operators: the check that fails,
\* or the setup kernel it launches.
set_dynamic_kernel_args(XQ, WQ, zero_start_index_M, M_sizes, zeroing_output_tensor) ==
  IF ~one_descriptor(zero_start_index_M, M_sizes)
  THEN [err |-> "One of zero_start_index_M or M_sizes must be provided."]
  ELSE IF zero_start_index_M.has_value /\ ~(XQ.device = zero_start_index_M.device)
  THEN [err |-> "zero_start_index_M and inputs must be on the same device."]
  ELSE IF zero_start_index_M.has_value /\ ~(zero_start_index_M.dtype = "long")
  THEN [err |-> "zero_start_index_M must be int64."]
  ELSE IF M_sizes.has_value /\ ~(XQ.device = M_sizes.device)
  THEN [err |-> "M_sizes and inputs must be on the same device."]
  ELSE IF M_sizes.has_value /\ ~(M_sizes.dtype = "long")
  THEN [err |-> "M_sizes must be int64."]
  ELSE
  LET group_count == IF M_sizes.has_value THEN M_sizes.sizes[1]
                     ELSE zero_start_index_M.sizes[1]
      M == XQ.sizes[Len(XQ.sizes) - 1]
      K == WQ.sizes[3]
      N == WQ.sizes[2]
  IN  IF M_sizes.has_value
      THEN [err |-> "",
            launch |-> Launch("set_kernel_args", DevicePtr(M_sizes.data), nullptr,
                              M, N, K, group_count, nullopt)]
      ELSE IF zeroing_output_tensor
      THEN IF ~(N % 8 = 0)
           THEN [err |-> "N must be divisible 8 for dynamic grouped gemm."]
           ELSE LET block_factor == std_max(group_count, (group_count * M * N) \div 8)
                    blockSize == std_min(512, block_factor)
                    numBlocks == (block_factor + blockSize - 1) \div blockSize
                IN  [err |-> "",
                     launch |-> LaunchFixedNK(
                       "set_kernel_args_fixed_nk_kernel_zeroing",
                       DevicePtr(zero_start_index_M.data), M, N, K, group_count,
                       numBlocks, blockSize)]
      ELSE [err |-> "",
            launch |-> LaunchFixedNK(
              "set_kernel_args_fixed_nk_kernel",
              DevicePtr(zero_start_index_M.data), M, N, K, group_count,
              1, group_count)]

f8f8bf16_rowwise_grouped_stacked(XQ, WQ, x_scale, w_scale, M_sizes) ==
  LET group_count == M_sizes.sizes[1]
      total_M == XQ.sizes[1]
      N == WQ.sizes[2]
      K == XQ.sizes[2]
      invalid == validate_inputs_common(XQ, WQ, x_scale, w_scale)
  IN  IF invalid # "" THEN Host(Raise(invalid, <<>>), NoLaunch)
      ELSE IF WQ.sizes[1] = group_count /\ numel(x_scale) = total_M /\ group_count = 0
      THEN Host(DivisionByZero("w_scale.numel() / group_count", <<>>), NoLaunch)
      ELSE IF ~(WQ.sizes[1] = group_count /\ numel(x_scale) = total_M
                  /\ numel(w_scale) \div group_count = N)
      THEN Host(Raise("All inputs must have the same number of groups.", <<>>),
                NoLaunch)
      ELSE IF ~(Len(XQ.sizes) = 2)
      THEN Host(Raise("Input XQ must be 2D (total_M,K).", <<>>), NoLaunch)
      ELSE IF ~(Len(WQ.sizes) = 3)
      THEN Host(Raise("Input WQ must be 3D (G,N,K).", <<>>), NoLaunch)
      ELSE IF ~(WQ.sizes[2] >= 512 /\ WQ.sizes[3] >= 512)
      THEN Host(Raise("N and K must be at least 512 for grouped gemm.", <<>>),
                NoLaunch)
      ELSE
      LET Y == Tensor(<<total_M, N>>, "bfloat16", "empty")
      IN  IF total_M = 0 THEN Host(Return(Y, nullopt, <<Event("at::empty", "")>>),
                                   NoLaunch)
          ELSE
          LET set == set_dynamic_kernel_args(XQ, WQ, nullopt, M_sizes, FALSE)
              k == rowwise_grouped_heuristic_dispatch(group_count, total_M, N, K)
          IN  IF set.err # ""
              THEN Host(Raise(set.err, <<Event("at::empty", "")>>), NoLaunch)
              ELSE Host(Selected([Y EXCEPT !.content = "computed"],
                                 <<Event("at::empty", ""),
                                   Event("set_kernel_args", group_count),
                                   Event("rowwise_grouped_heuristic_dispatch", ""),
                                   Event("kernel", k)>>,
                                 "rowwise_grouped_heuristic_dispatch",
                                 total_M, N, K, NotTuned(k), k),
                        set.launch)

\* get_stacked_kernel_args: the launch of the bf16 setup kernel.
get_stacked_kernel_args(X, W, M_sizes) ==
  Launch("set_kernel_args_m_sizes_kernel", DevicePtr(M_sizes.data), nullptr,
         X.sizes[1], W.sizes[2], W.sizes[3], M_sizes.sizes[1], nullopt)

\* pow2 is the value nextPow2(total_M) returns inside grouped_heuristic_dispatch.
bf16bf16bf16_grouped_stacked(X, W, M_sizes, pow2) ==
  LET group_count == M_sizes.sizes[1]
      total_M == X.sizes[1]
      N == W.sizes[2]
      K == X.sizes[2]
      failed ==
        IF ~(W.sizes[1] = group_count)
        THEN "All inputs must have the same number of groups."
        ELSE IF ~(X.is_cuda /\ X.is_contiguous)
        THEN "X.is_cuda() && X.is_contiguous()"
        ELSE IF ~(Len(X.sizes) = 2)
        THEN "Input X must be 2D (total_M,K)."
        ELSE IF ~(X.dtype = "bfloat16")
        THEN "Input XQ must be type bfloat16."
        ELSE IF ~(W.is_cuda /\ W.is_contiguous)
        THEN "W.is_cuda() && W.is_contiguous()"
        ELSE IF ~(Len(W.sizes) = 3)
        THEN "Input W must be 3D (G,N,K)."
        ELSE IF ~(W.dtype = "bfloat16")
        THEN "Input W must be type bfloat16"
        ELSE IF ~(W.sizes[2] >= 512 /\ W.sizes[3] >= 512)
        THEN "N and K must be at least 512 for grouped gemm."
        ELSE IF ~(X.device = M_sizes.device)
        THEN "M_sizes and inputs must be on the same device."
        ELSE IF ~(M_sizes.dtype = "long")
        THEN "M_sizes must be int64."
        ELSE ""
  IN  IF failed # "" THEN Host(Raise(failed, <<>>), NoLaunch)
      ELSE
      LET Y == Tensor(<<total_M, N>>, "bfloat16", "empty")
          k == grouped_heuristic_dispatch(group_count, pow2, N, K)
      IN  IF total_M = 0 THEN Host(Return(Y, nullopt, <<Event("at::empty", "")>>),
                                   NoLaunch)
          ELSE Host(Selected([Y EXCEPT !.content = "computed"],
                             <<Event("at::empty", ""),
                               Event("set_kernel_args_m_sizes_kernel", group_count),
                               Event("grouped_heuristic_dispatch", ""),
                               Event("kernel", k)>>,
                             "grouped_heuristic_dispatch",
                             total_M, N, K, NotTuned(k), k),
                    get_stacked_kernel_args(X, W, M_sizes))


(***************************************************************************)
(* The dynamic grouped operators on the host                               *)
(***************************************************************************)

\* What a dynamic grouped call hands back: its result, the setup kernel it
\* launched and the output buffer it allocated.
HostDynamic(r, l, mem) == [ret |-> r, launch |-> l, output_memory |-> mem]

\* fresh is what the memory of the output held when at::empty handed it out.
f8f8bf16_rowwise_grouped_dynamic(XQ, WQ, x_scale, w_scale, zero_start_index_M, zeroing_output_tensor, fresh) ==
  LET group_count == XQ.sizes[1]
      M == XQ.sizes[2]
      N == WQ.sizes[2]
      K == WQ.sizes[3]
      invalid == validate_inputs_common(XQ, WQ, x_scale, w_scale)
  IN  IF WQ.sizes[1] = group_count /\ group_count = 0
      THEN HostDynamic(DivisionByZero("x_scale.numel() / group_count", <<>>),
                       NoLaunch, NoOutput)
      ELSE IF ~(WQ.sizes[1] = group_count /\ numel(x_scale) \div group_count = M
             /\ numel(w_scale) \div group_count = N)
      THEN HostDynamic(Raise("All inputs must have the same number of groups.", <<>>),
                       NoLaunch, NoOutput)
      ELSE IF invalid # "" THEN HostDynamic(Raise(invalid, <<>>), NoLaunch, NoOutput)
      ELSE IF ~(Len(XQ.sizes) = 3)
      THEN HostDynamic(Raise("Input XQ must be 3D (G,M,K).", <<>>), NoLaunch, NoOutput)
      ELSE IF ~(Len(WQ.sizes) = 3)
      THEN HostDynamic(Raise("Input WQ must be 3D (G,N,K).", <<>>), NoLaunch, NoOutput)
      ELSE IF ~(WQ.sizes[2] >= 512 /\ WQ.sizes[3] >= 512)
      THEN HostDynamic(Raise("N and K must be at least 512 for grouped gemm.", <<>>),
                       NoLaunch, NoOutput)
      ELSE
      LET Y == Tensor(<<group_count, M, N>>, "bfloat16", "empty")
          mem == Output("at::empty", fresh)
      IN  IF numel(Y) = 0
          THEN HostDynamic(Return(Y, nullopt, <<Event("at::empty", "Y")>>),
                           NoLaunch, mem)
          ELSE
          LET set == set_dynamic_kernel_args(XQ, WQ, zero_start_index_M, nullopt,
                                             zeroing_output_tensor)
              k == rowwise_grouped_heuristic_dispatch(group_count, M, N, K)
          IN  IF set.err # ""
              THEN HostDynamic(Raise(set.err, <<Event("at::empty", "Y"),
                                                Event("at::empty", "kernel_args")>>),
                               NoLaunch, mem)
              ELSE HostDynamic(
                     Selected([Y EXCEPT !.content = "computed"],
                              <<Event("at::empty", "Y"),
                                Event("at::empty", "kernel_args"),
                                Event(set.launch.kernel, group_count),
                                Event("rowwise_grouped_heuristic_dispatch", ""),
                                Event("kernel", k)>>,
                              "rowwise_grouped_heuristic_dispatch",
                              M, N, K, NotTuned(k), k),
                     set.launch, mem)

\* set_dynamic_kernel_args of the bf16 grouped operators.
bf16_set_dynamic_kernel_args(A, B, zero_start_index_M) ==
  LET group_count == A.sizes[1]
  IN  IF ~(A.device = zero_start_index_M.device)
      THEN [err |-> "zero_start_index_M and inputs must be on the same device."]
      ELSE IF ~(zero_start_index_M.sizes[1] = group_count)
      THEN [err |-> "zero_start_index_M must have an entry for each group."]
      ELSE IF ~(zero_start_index_M.dtype = "long")
      THEN [err |-> "zero_start_index_M must be int64."]
      ELSE [err |-> "",
            launch |-> LaunchFixedNK(
              "bf16 set_kernel_args_fixed_nk_kernel",
              DevicePtr(zero_start_index_M.data), A.sizes[2], B.sizes[2],
              A.sizes[3], group_count, 1, group_count)]

\* pow2 is the value nextPow2(MaxM) returns inside grouped_heuristic_dispatch.
bf16bf16bf16_grouped_dynamic(A, B, zero_start_index_M, pow2) ==
  LET group_count == A.sizes[1]
      M == A.sizes[2]
      N == B.sizes[2]
      K == B.sizes[3]
      failed ==
        IF ~(A.sizes[1] = B.sizes[1])
        THEN "A and B must have the same number of groups."
        ELSE IF ~(A.is_cuda /\ A.is_contiguous)
        THEN "A.is_cuda() && A.is_contiguous()"
        ELSE IF ~(Len(A.sizes) = 3)
        THEN "Inputs must be 3D [G, M, K]."
        ELSE IF ~(A.dtype = "bfloat16")
        THEN "Inputs must be type bfloat16."
        ELSE IF ~(B.is_cuda /\ B.is_contiguous)
        THEN "B.is_cuda() && B.is_contiguous()"
        ELSE IF ~(Len(B.sizes) = 3)
        THEN "Inputs must be 3D [G, N, K]."
        ELSE IF ~(B.dtype = "bfloat16")
        THEN "Inputs must be type bfloat16."
        ELSE ""
  IN  IF failed # "" THEN HostDynamic(Raise(failed, <<>>), NoLaunch, NoOutput)
      ELSE
      LET Y == Tensor(<<group_count, M, N>>, "bfloat16", "zeros")
          mem == Output("at::zeros", "zero")
      IN  IF numel(Y) = 0
          THEN HostDynamic(Return(Y, nullopt, <<Event("at::zeros", "Y")>>),
                           NoLaunch, mem)
          ELSE
          LET set == bf16_set_dynamic_kernel_args(A, B, zero_start_index_M)
              k == grouped_heuristic_dispatch(group_count, pow2, B.sizes[2], A.sizes[3])
          IN  IF set.err # ""
              THEN HostDynamic(Raise(set.err, <<Event("at::zeros", "Y"),
                                                Event("at::empty", "kernel_args")>>),
                               NoLaunch, mem)
              ELSE HostDynamic(
                     Selected([Y EXCEPT !.content = "computed"],
                              <<Event("at::zeros", "Y"),
                                Event("at::empty", "kernel_args"),
                                Event("set_kernel_args_fixed_nk_kernel", group_count),
                                Event("grouped_heuristic_dispatch", ""),
                                Event("kernel", k)>>,
                              "grouped_heuristic_dispatch",
                              M, N, K, NotTuned(k), k),
                     set.launch, mem)
(***************************************************************************)
(* Calls of the rowwise entry points                                       *)
(***************************************************************************)

RowwiseOps ==
  {"f8f8bf16_rowwise", "f8f8bf16_rowwise_out", "f8f8bf16_rowwise_preshuffle",
   "f8f8f16_rowwise_preshuffle", "f8f8bf16_rowwise_preshuffle_out"}

OutOps == {"f8f8bf16_rowwise_out", "f8f8bf16_rowwise_preshuffle_out"}

\* Leading sizes of XQ: one or two dimensions before K.
LeadingSizes ==
  {<<0>>, <<1>>, <<17>>, <<64>>, <<300>>,
   <<0, 17>>, <<2, 0>>, <<2, 1>>, <<2, 17>>}

\* Sizes (N, K) of WQ.
WQSizes ==
  {<<0, 1024>>, <<1280, 0>>, <<1280, 8192>>, <<7168, 8192>>, <<12, 1024>>,
   <<2048, 2048>>}

InputTensor(sizes, dtype, is_cuda, is_contiguous) ==
  [has_value |-> TRUE, sizes |-> sizes, dtype |-> dtype, content |-> "data",
   is_cuda |-> is_cuda, is_contiguous |-> is_contiguous]

\* The preallocated outputs a caller may pass for inputs lead x K and N x K:
\* the expected one, its flattened form, and ones wrong in the leading size,
\* the last size or the dtype.
OutputChoices(lead, N) ==
  {Tensor(lead \o <<N>>, "bfloat16", "stale"),
   Tensor(<<size_to_dim_(Len(lead), lead), N>>, "bfloat16", "stale"),
   Tensor(<<lead[1] + 1>> \o Tail(lead) \o <<N>>, "bfloat16", "stale"),
   Tensor(lead \o <<N + 8>>, "bfloat16", "stale"),
   Tensor(lead \o <<N>>, "float16", "stale")}

RowwiseFlags ==
  {"float8_e4m3fnuz", "bfloat16"} \X BOOLEAN \X {"float", "bfloat16"}
    \X BOOLEAN \X BOOLEAN

RowwiseCall(lead, nk, f, out) ==
  [XQ |-> InputTensor(lead \o <<nk[2]>>, f[1], TRUE, f[2]),
   WQ |-> InputTensor(nk, "float8_e4m3fnuz", TRUE, TRUE),
   x_scale |-> InputTensor(<<size_to_dim_(Len(lead), lead)>>, f[3], TRUE, TRUE),
   w_scale |-> InputTensor(<<nk[1]>>, "float", TRUE, TRUE),
   bias |-> IF f[4] THEN InputTensor(<<nk[1]>>, "float", TRUE, TRUE) ELSE nullopt,
   use_fast_accum |-> f[5],
   output |-> out]

RowwiseCalls(o) ==
  UNION {{RowwiseCall(lead, nk, f, out) :
            f \in RowwiseFlags,
            out \in IF o \in OutOps THEN OutputChoices(lead, nk[1]) ELSE {nullopt}} :
         lead \in LeadingSizes, nk \in WQSizes}

Pending == [status |-> "pending"]

\* Nothing is enqueued on the device.
DeviceIdle ==
  /\ launch = NoLaunch
  /\ pc = <<>>
  /\ non_zero_counter = 0
  /\ kernel_args = <<>>
  /\ non_zero_idx = <<>>
  /\ output_memory = NoOutput

\* The first call of a process: the tuning cache is empty.
FirstCall ==
  /\ cache = EmptyCache
  /\ calls = 1
  /\ history = <<>>
  /\ hash_table = <<>>
  /\ output_data = <<>>

Init ==
  /\ op \in RowwiseOps
  /\ args \in RowwiseCalls(op)
  /\ phase = "called"
  /\ ret = Pending
  /\ DeviceIdle
  /\ FBGEMM_AUTOTUNE_ENABLE = FALSE
  /\ FirstCall

Returns(r) ==
  /\ ret' = r
  /\ phase' = "returned"
  /\ UNCHANGED <<op, args, FBGEMM_AUTOTUNE_ENABLE, cache, calls, history>>
  /\ UNCHANGED embedding
  /\ UNCHANGED device

f8f8bf16_rowwise ==
  /\ phase = "called" /\ op = "f8f8bf16_rowwise"
  /\ Returns(f8f8_rowwise_wrapper(args.XQ, args.WQ, args.x_scale, args.w_scale,
                                  args.bias, args.use_fast_accum, nullopt))

\* Returns nothing: the wrapper's result is dropped.
f8f8bf16_rowwise_out ==
  /\ phase = "called" /\ op = "f8f8bf16_rowwise_out"
  /\ Returns([f8f8_rowwise_wrapper(args.XQ, args.WQ, args.x_scale, args.w_scale,
                                   args.bias, args.use_fast_accum, args.output)
              EXCEPT !.value = nullopt])

f8f8bf16_rowwise_preshuffle ==
  /\ phase = "called" /\ op = "f8f8bf16_rowwise_preshuffle"
  /\ Returns(f8f8_rowwise_preshuffle_wrapper("bfloat16", args.XQ, args.WQ,
               args.x_scale, args.w_scale, args.bias, args.use_fast_accum, nullopt))

f8f8f16_rowwise_preshuffle ==
  /\ phase = "called" /\ op = "f8f8f16_rowwise_preshuffle"
  /\ Returns(f8f8_rowwise_preshuffle_wrapper("float16", args.XQ, args.WQ,
               args.x_scale, args.w_scale, args.bias, args.use_fast_accum, nullopt))

f8f8bf16_rowwise_preshuffle_out ==
  /\ phase = "called" /\ op = "f8f8bf16_rowwise_preshuffle_out"
  /\ Returns([f8f8_rowwise_preshuffle_wrapper("bfloat16", args.XQ, args.WQ,
                args.x_scale, args.w_scale, args.bias, args.use_fast_accum, args.output)
              EXCEPT !.value = nullopt])

Next ==
  \/ f8f8bf16_rowwise
  \/ f8f8bf16_rowwise_out
  \/ f8f8bf16_rowwise_preshuffle
  \/ f8f8f16_rowwise_preshuffle
  \/ f8f8bf16_rowwise_preshuffle_out

Spec == Init /\ [][Next]_vars

(***************************************************************************)
(* Properties of the rowwise entry points                                  *)
(***************************************************************************)

RECURSIVE Product(_)
Product(s) ==
  IF s = <<>> THEN 1 ELSE Head(s) * Product(Tail(s))

\* The problem shape of a rowwise call, read off its arguments.
ShapeM(a) == Product(SubSeq(a.XQ.sizes, 1, Len(a.XQ.sizes) - 1))
ShapeN(a) == a.WQ.sizes[1]
ShapeK(a) == a.WQ.sizes[2]

\* The arguments pass every check the rowwise wrappers make on their inputs.
RowwiseInputsValid(a) ==
  /\ a.XQ.dtype = "float8_e4m3fnuz" /\ a.WQ.dtype = "float8_e4m3fnuz"
  /\ a.x_scale.dtype = "float" /\ a.w_scale.dtype = "float"
  /\ a.use_fast_accum
  /\ ~a.bias.has_value
  /\ a.XQ.is_cuda /\ a.XQ.is_contiguous
  /\ a.WQ.is_cuda /\ a.WQ.is_contiguous

SelectionEvents ==
  {"rowwise_dispatch", "rowwise_preshuffle_heuristic_dispatch", "kernel"}

NoSelectionOrKernel(r) ==
  \A i \in 1..Len(r.trace) : r.trace[i].ev \notin SelectionEvents

C12_BiasRejected ==
  (/\ phase = "returned"
   /\ op \in RowwiseOps
   /\ args.bias.has_value)
  => /\ ret.status = "error"
     /\ ~ret.value.has_value
     /\ ~ret.output.has_value
     /\ ret.trace = <<>>

\* A call that is valid but for its bias, with M = 0, failed on the bias.
C12_Witness ==
  /\ phase = "returned"
  /\ op \in RowwiseOps
  /\ args.bias.has_value
  /\ RowwiseInputsValid([args EXCEPT !.bias = nullopt])
  /\ ShapeM(args) = 0
  /\ ret.status = "error"
  /\ ret.err = "AMD does not support fused bias."

\* The preallocated output does not fit the call: its flattened leading size
\* is not M, its last size is not N, or its dtype is not bfloat16.
OutputMismatch(a) ==
  \/ Product(SubSeq(a.output.sizes, 1, Len(a.output.sizes) - 1)) # ShapeM(a)
  \/ a.output.sizes[Len(a.output.sizes)] # ShapeN(a)
  \/ a.output.dtype # "bfloat16"

\* C13: a call of f8f8bf16_rowwise_out or f8f8bf16_rowwise_preshuffle_out with
\* a preallocated output of the wrong leading size, last size or dtype fails
\* and runs no kernel, for every input shape.
C13_OutputMismatchRejected ==
  (/\ phase = "returned"
   /\ op \in OutOps
   /\ OutputMismatch(args))
  => /\ ret.status = "error"
     /\ NoSelectionOrKernel(ret)

(***************************************************************************)
(* Calls of bf16_gemm                                                      *)
(***************************************************************************)

GemmMs == {0, 64, 128, 200, 256, 4096, 8192}
GemmNs == {64, 128, 256, 4096, 8192}
GemmKs == {128, 256, 300, 512}
GemmDtypes == {"bfloat16", "float16"}

GemmCalls ==
  {[A |-> InputTensor(<<M, K>>, da, TRUE, TRUE),
    B |-> InputTensor(<<N, K>>, db, TRUE, TRUE)] :
     M \in GemmMs, N \in GemmNs, K \in GemmKs, da \in GemmDtypes, db \in GemmDtypes}

InitGemm ==
  /\ op = "bf16_gemm"
  /\ args \in GemmCalls
  /\ phase = "called"
  /\ ret = Pending
  /\ DeviceIdle
  /\ FBGEMM_AUTOTUNE_ENABLE = FALSE
  /\ FirstCall

Call_bf16_gemm ==
  /\ phase = "called" /\ op = "bf16_gemm"
  /\ Returns(bf16_gemm(args.A, args.B))

NextGemm ==
  Call_bf16_gemm

SpecGemm == InitGemm /\ [][NextGemm]_vars

\* C11: bf16_gemm of a 128x256 bf16 A and a 64x256 bf16 B succeeds and returns a
\* bf16 tensor of sizes 128x64.
C11_Bf16GemmEndToEnd ==
  (/\ phase = "returned" /\ op = "bf16_gemm"
   /\ args.A.sizes = <<128, 256>> /\ args.A.dtype = "bfloat16"
   /\ args.B.sizes = <<64, 256>> /\ args.B.dtype = "bfloat16")
  => /\ ret.status = "ok"
     /\ ret.value.has_value
     /\ ret.value.sizes = <<128, 64>>
     /\ ret.value.dtype = "bfloat16"
(***************************************************************************)
(* Calls of the selection functions on their own                           *)
(***************************************************************************)

\* The largest key of the synthetic family tables.
MaxKey == 4

SelectOps ==
  {"rowwise_dispatch", "rowwise_nk_lookup", "rowwise_heuristic_dispatch",
   "rowwise_preshuffle_heuristic_dispatch", "grouped_heuristic_dispatch"}

\* Values of M around every threshold and every bucket of the selectors.
SelectMs ==
  {1, 8, 9, 16, 17, 32, 33, 63, 64, 65, 128, 129, 511, 512, 513, 1023, 1024,
   1025, 2048, 2049, 4096, 4097, 8193}
    \cup {k[1] : k \in DOMAIN rowwise_lookup_dispatch}

\* The (N, K) of every table, and values of N and K around every threshold.
SelectNKs ==
  {<<k[2], k[3]>> : k \in DOMAIN rowwise_lookup_dispatch}
    \cup DOMAIN NK_lookup_table
    \cup ({8, 12, 1024, 1032, 2040, 2048, 2056, 4096, 4104, 5120, 5128, 8192, 8200}
            \X {16, 24, 1008, 1024, 1040, 2032, 2048, 2064, 8176, 8192, 8208})
    \cup {<<2052, 2048>>, <<8196, 8200>>, <<4096, 2040>>, <<1024, 1032>>}

\* Family tables: the nine of the program and every non-empty table over the
\* keys 1..MaxKey, whose kernels differ from key to key.
SyntheticKernel(k) ==
  N_7168_K_8192_dispatch_table[MapKeys(DOMAIN N_7168_K_8192_dispatch_table)[k]]

FamilyTables ==
  {NK_lookup_table[nk] : nk \in DOMAIN NK_lookup_table}
    \cup {[k \in keys |-> SyntheticKernel(k)] : keys \in SUBSET (1..MaxKey) \ {{}}}

\* The queries of a table: around each of its keys, below and above them all.
QueryMs(table) ==
  {1} \cup UNION {{k - 1, k, k + 1} : k \in DOMAIN table}

GroupedShapes ==
  {[G |-> k[1], total_M |-> m, N |-> k[3], K |-> k[4]] :
     k \in {e \in DOMAIN bf16_grouped_lookup_dispatch : e[3] = 2048} \cup {<<3, 0, 512, 512>>},
     m \in {0, 1, 2, 3, 16, 17, 100, 128, 4096, 4097, 8192, 9000, 100000,
              1073741824, 1073741825}}

SelectArgs(o) ==
  IF o = "rowwise_nk_lookup"
  THEN UNION {{[M |-> m, table |-> t] : m \in QueryMs(t)} : t \in FamilyTables}
  ELSE IF o = "grouped_heuristic_dispatch"
  THEN GroupedShapes
  ELSE {[M |-> m, N |-> nk[1], K |-> nk[2]] : m \in SelectMs, nk \in SelectNKs}

InitSelect ==
  /\ op \in SelectOps
  /\ args \in SelectArgs(op)
  /\ phase = "called"
  /\ ret = Pending
  /\ DeviceIdle
  /\ FBGEMM_AUTOTUNE_ENABLE = FALSE
  /\ FirstCall

RowwiseDispatch ==
  /\ phase = "called" /\ op = "rowwise_dispatch"
  /\ Returns(rowwise_dispatch(args.M, args.N, args.K))

RowwiseNkLookup ==
  /\ phase = "called" /\ op = "rowwise_nk_lookup"
  /\ Returns([kernel |-> rowwise_nk_lookup(args.M, args.table),
              key    |-> MapKeys(DOMAIN args.table)[nk_lookup_it(args.M, args.table)]])

RowwiseHeuristicDispatch ==
  /\ phase = "called" /\ op = "rowwise_heuristic_dispatch"
  /\ Returns([kernel |-> rowwise_heuristic_dispatch(args.M, args.N, args.K)])

RowwisePreshuffleHeuristicDispatch ==
  /\ phase = "called" /\ op = "rowwise_preshuffle_heuristic_dispatch"
  /\ Returns([kernel |-> rowwise_preshuffle_heuristic_dispatch(args.M, args.N, args.K)])

GroupedHeuristicDispatch ==
  /\ phase = "called" /\ op = "grouped_heuristic_dispatch"
  /\ \E pow2 \in nextPow2(args.total_M) :
       Returns([kernel |-> grouped_heuristic_dispatch(args.G, pow2, args.N, args.K),
                pow2   |-> pow2,
                padded_m |-> grouped_padded_m(args.G, pow2)])

NextSelect ==
  \/ RowwiseDispatch
  \/ RowwiseNkLookup
  \/ RowwiseHeuristicDispatch
  \/ RowwisePreshuffleHeuristicDispatch
  \/ GroupedHeuristicDispatch

SpecSelect == InitSelect /\ [][NextSelect]_vars

(***************************************************************************)
(* C3 .. C6: the selection functions                                       *)
(***************************************************************************)

Min(S) == CHOOSE x \in S : \A y \in S : x <= y
Max(S) == CHOOSE x \in S : \A y \in S : x >= y

\* The key a family table answers M with: the smallest key that is at least M,
\* and the largest key when M exceeds them all.
KeyAtLeast(table, M) ==
  LET ge == {k \in DOMAIN table : k >= M}
  IN  IF ge # {} THEN Min(ge) ELSE Max(DOMAIN table)

\* The bucket of M in the exact table: the next of 16, 32, 64, 128 for M up to
\* 128, M itself above.
Bucket(M) ==
  IF M <= 128 THEN Min({b \in {16, 32, 64, 128} : b >= M}) ELSE M

\* C3: rowwise_dispatch consults the exact table under the bucket of M first and
\* returns its kernel on a hit; otherwise it consults the family table of (N, K)
\* with the unbucketed M and returns its kernel when there is one; otherwise it
\* returns what the heuristic returns.
C3_DispatchChainOrder ==
  (phase = "returned" /\ op = "rowwise_dispatch")
  => LET exact == <<Bucket(args.M), args.N, args.K>>
         nk    == <<args.N, args.K>>
     IN  IF exact \in DOMAIN rowwise_lookup_dispatch
         THEN /\ ret.kernel = rowwise_lookup_dispatch[exact]
              /\ ret.path = <<"rowwise_lookup_dispatch">>
         ELSE IF nk \in DOMAIN NK_lookup_table
         THEN /\ ret.kernel = NK_lookup_table[nk][KeyAtLeast(NK_lookup_table[nk], args.M)]
              /\ ret.path = <<"rowwise_lookup_dispatch", "NK_lookup_table">>
         ELSE /\ ret.kernel = rowwise_heuristic_dispatch(args.M, args.N, args.K)
              /\ ret.path = <<"rowwise_lookup_dispatch", "NK_lookup_table",
                              "rowwise_heuristic_dispatch">>

\* A family table was consulted with an M whose bucket is a key of the table and
\* differs from the key that M itself selects.
C3_Witness ==
  /\ phase = "returned" /\ op = "rowwise_dispatch"
  /\ ret.path = <<"rowwise_lookup_dispatch", "NK_lookup_table">>
  /\ args.M < 128 /\ Bucket(args.M) # args.M
  /\ KeyAtLeast(NK_lookup_table[<<args.N, args.K>>], args.M)
       # KeyAtLeast(NK_lookup_table[<<args.N, args.K>>], Bucket(args.M))

\* C4: rowwise_nk_lookup returns the kernel stored under the smallest key that is
\* at least M, and the kernel under the largest key when M exceeds every key.
C4_NkLookupSmallestKeyAtLeastM ==
  (phase = "returned" /\ op = "rowwise_nk_lookup")
  => /\ ret.key = KeyAtLeast(args.table, args.M)
     /\ ret.kernel = args.table[KeyAtLeast(args.table, args.M)]

\* A query above every key of a table with several keys was answered.
C4_Witness ==
  /\ phase = "returned" /\ op = "rowwise_nk_lookup"
  /\ Cardinality(DOMAIN args.table) > 1
  /\ \A k \in DOMAIN args.table : args.M > k
  /\ ret.key = Max(DOMAIN args.table)

\* C5: the key rowwise_nk_lookup selects never decreases when M increases: every
\* larger query of the same table selects a key at least as large.
C5_NkLookupMonotonic ==
  (phase = "returned" /\ op = "rowwise_nk_lookup")
  => \A M2 \in QueryMs(args.table) :
       args.M <= M2
         => ret.key <= MapKeys(DOMAIN args.table)[nk_lookup_it(M2, args.table)]

\* A query that selected a key below the largest has returned, so that larger
\* queries select larger keys, one of them beyond every key.
C5_Witness ==
  /\ phase = "returned" /\ op = "rowwise_nk_lookup"
  /\ ret.key < Max(DOMAIN args.table)
  /\ args.table = N_7168_K_8192_dispatch_table
  /\ \E M2 \in QueryMs(args.table) : M2 > Max(DOMAIN args.table)

HeuristicOps ==
  {"rowwise_heuristic_dispatch", "rowwise_preshuffle_heuristic_dispatch",
   "grouped_heuristic_dispatch"}

\* C6: for positive sizes every heuristic selector returns a kernel, whichever
\* branch the sizes fall in; the rowwise one returns a kernel of the catalog.
C6_HeuristicsTotal ==
  (phase = "returned" /\ op \in HeuristicOps)
  => /\ ret.kernel # NoKernel
     /\ op = "rowwise_heuristic_dispatch"
          => ret.kernel \in fp8fp8bf16_rowwise_kernel_manifest

\* The rowwise heuristic has returned for sizes that none of its ranges before
\* the last covers.
C6_Witness ==
  /\ phase = "returned" /\ op = "rowwise_heuristic_dispatch"
  /\ ~IrregularShape(args.N, args.K)
  /\ \A i \in 1..(Len(rowwise_heuristic_ranges(args.M, args.N, args.K)) - 1) :
       ~rowwise_heuristic_ranges(args.M, args.N, args.K)[i][1]
  /\ ret.kernel # NoKernel


FallbackKernel ==
  "fp8fp8bf16_rowwise_64x16x16x256_16x16_1x1_16x4x1_16x4x1_1x4x1x16_4x4x1_1x1_intrawave_v1"

\* C20: for every (M, N, K) with N % 8 # 0 or K % 16 # 0,
\* rowwise_heuristic_dispatch returns the general fallback kernel
\* 64x16x16x256 intrawave_v1, whatever M and however large N and K are.
C20_IrregularShapeFallback ==
  (/\ phase = "returned" /\ op = "rowwise_heuristic_dispatch"
   /\ (args.N % 8 # 0 \/ args.K % 16 # 0))
  => ret.kernel = FallbackKernel

\* An irregular K with a regular N and sizes that the range checks would give
\* the kernel for very large problems.
C20_Witness ==
  /\ phase = "returned" /\ op = "rowwise_heuristic_dispatch"
  /\ args.N % 8 = 0 /\ args.K % 16 # 0
  /\ args.M >= 1024 /\ args.N >= 1024 /\ args.K >= 1024
  /\ ret.kernel = FallbackKernel
  /\ FirstMatch(rowwise_heuristic_ranges(args.M, args.N, args.K), 1) # FallbackKernel

\* The block size and the M and N tile of the kernels the range checks return,
\* as their names spell them: rowwise_<block>x<M tile>x<N tile>x<K tile>_...
KernelShape ==
  [k \in {rowwise_heuristic_ranges(1, 8, 16)[i][2] : i \in 1..10} |->
     CASE k = "fp8fp8bf16_rowwise_64x16x16x128_16x16_1x1_8x8x1_8x8x1_1x16x1x4_4x4x1_1x1_interwave_v1"
            -> [block |-> 64, MPerBlock |-> 16, NPerBlock |-> 16]
       [] k = "fp8fp8bf16_rowwise_128x16x32x128_16x16_1x1_8x16x1_8x16x1_1x16x1x8_4x4x1_1x1_intrawave_v1"
            -> [block |-> 128, MPerBlock |-> 16, NPerBlock |-> 32]
       [] k = "fp8fp8bf16_rowwise_128x32x16x128_16x16_1x1_8x16x1_8x16x1_1x16x1x8_2x2x1_1x1_interwave_v1"
            -> [block |-> 128, MPerBlock |-> 32, NPerBlock |-> 16]
       [] k = "fp8fp8bf16_rowwise_64x16x16x256_16x16_1x1_16x4x1_16x4x1_1x4x1x16_4x4x1_1x1_intrawave_v1"
            -> [block |-> 64, MPerBlock |-> 16, NPerBlock |-> 16]
       [] k = "fp8fp8bf16_rowwise_256x128x128x128_32x32_2x2_8x32x1_8x32x1_1x32x1x8_8x8x1_1x1_intrawave_v5"
            -> [block |-> 256, MPerBlock |-> 128, NPerBlock |-> 128]
       [] k = "fp8fp8bf16_rowwise_256x128x128x128_32x32_2x2_8x32x1_8x32x1_1x32x1x8_8x8x1_1x1_interwave_v1"
            -> [block |-> 256, MPerBlock |-> 128, NPerBlock |-> 128]
       [] k = "fp8fp8bf16_rowwise_256x128x128x128_32x32_2x2_8x32x1_8x32x1_1x32x1x8_8x8x1_1x1_intrawave_v3"
            -> [block |-> 256, MPerBlock |-> 128, NPerBlock |-> 128]
       [] k = "fp8fp8bf16_rowwise_256x256x256x128_16x16_8x8_8x32x1_8x32x1_1x32x1x8_8x8x1_1x2_intrawave_v3"
            -> [block |-> 256, MPerBlock |-> 256, NPerBlock |-> 256]
       [] k = "fp8fp8bf16_rowwise_256x224x256x128_16x16_7x8_8x32x1_8x32x1_1x32x1x8_8x8x1_1x2_intrawave_v3"
            -> [block |-> 256, MPerBlock |-> 224, NPerBlock |-> 256]]

TileArea(k) == KernelShape[k].MPerBlock * KernelShape[k].NPerBlock

\* The shapes of the model that pass the divisibility guard and are no larger
\* than (M, N, K) in any dimension.
SmallerShapes(M, N, K) ==
  {s \in SelectArgs("rowwise_heuristic_dispatch") :
     /\ s.N % 8 = 0 /\ s.K % 16 = 0
     /\ s.M <= M /\ s.N <= N /\ s.K <= K}

\* The kernel returned for the shape s is no larger than kernel in block size
\* and in tile area.
NoLargerThan(s, kernel) ==
  LET small == rowwise_heuristic_dispatch(s.M, s.N, s.K)
  IN  /\ KernelShape[small].block <= KernelShape[kernel].block
      /\ TileArea(small) <= TileArea(kernel)

\* C21 as stated: rowwise_heuristic_dispatch is monotone: for two shapes that
\* pass the divisibility guard with M <= M', N <= N', K <= K', the kernel
\* returned for (M', N', K') has a block size and an M tile x N tile area no
\* smaller than those of the kernel returned for (M, N, K).
C21_HeuristicMonotone ==
  (/\ phase = "returned" /\ op = "rowwise_heuristic_dispatch"
   /\ args.N % 8 = 0 /\ args.K % 16 = 0)
  => \A s \in SmallerShapes(args.M, args.N, args.K) : NoLargerThan(s, ret.kernel)

\* C21: rowwise_heuristic_dispatch is monotone up to shapes with M' >= 64: for
\* two shapes that pass the divisibility guard with M <= M', N <= N', K <= K'
\* and M' >= 64, the kernel returned for (M', N', K') has a block size and an
\* M tile x N tile area no smaller than those of the kernel returned for
\* (M, N, K).
C21_HeuristicMonotoneFromM64 ==
  (/\ phase = "returned" /\ op = "rowwise_heuristic_dispatch"
   /\ args.N % 8 = 0 /\ args.K % 16 = 0
   /\ args.M >= 64)
  => \A s \in SmallerShapes(args.M, args.N, args.K) : NoLargerThan(s, ret.kernel)

\* The kernel for very large problems was returned, and a smaller shape with
\* M >= 64 gets a kernel of a smaller tile.
C21_Witness ==
  /\ phase = "returned" /\ op = "rowwise_heuristic_dispatch"
  /\ args.N % 8 = 0 /\ args.K % 16 = 0
  /\ args.M >= 1024
  /\ ret.kernel = rowwise_heuristic_ranges(1, 8, 16)[9][2]
  /\ \E s \in SmallerShapes(args.M, args.N, args.K) :
       /\ s.M >= 64
       /\ TileArea(rowwise_heuristic_dispatch(s.M, s.N, s.K)) < TileArea(ret.kernel)

\* The smallest power of two that is at least num, for num <= 2^13.
SmallestPow2AtLeast(num) ==
  LET powers == {Pow2(i) : i \in 0..13}
  IN  CHOOSE p \in powers : p >= num /\ \A q \in powers : q >= num => p <= q

\* min(8192, max(G, smallest power of two >= total_M)): a power of two above
\* 8192 is cut to 8192 whatever it is.
ExpectedPaddedM(G, total_M) ==
  IF total_M > 8192 THEN 8192
  ELSE LET p == SmallestPow2AtLeast(total_M)
           at_least_G == IF p < G THEN G ELSE p
       IN  IF at_least_G > 8192 THEN 8192 ELSE at_least_G

\* C24: nextPow2(num) is the smallest power of two >= num (1 for num <= 1),
\* so that grouped_heuristic_dispatch looks up the key with
\* padded_m = min(8192, max(G, smallest power of two >= total_M)).
C24_NextPow2Exact ==
  (phase = "returned" /\ op = "grouped_heuristic_dispatch")
  => /\ args.total_M <= 8192 => ret.pow2 = SmallestPow2AtLeast(args.total_M)
     /\ ret.pow2 > 0
     /\ ret.padded_m = ExpectedPaddedM(args.G, args.total_M)
     /\ ret.kernel = grouped_heuristic_dispatch(args.G, ExpectedPaddedM(args.G, args.total_M),
                                                args.N, args.K)

\* The statement for a build whose shift masks its count, up to 2^30.
NextPow2ExactWhenMasked ==
  (/\ phase = "returned" /\ op = "grouped_heuristic_dispatch"
   /\ ret.pow2 # 0 /\ args.total_M <= 1073741824)
  => ret.padded_m = ExpectedPaddedM(args.G, args.total_M)

\* The shift gave the sign bit: padded_m is G where 8192 was expected.
NextPow2SignBit ==
  ~(/\ phase = "returned" /\ op = "grouped_heuristic_dispatch"
    /\ args.total_M = 1073741825 /\ ret.pow2 < 0
    /\ ret.padded_m = args.G /\ args.G < 8192)
(***************************************************************************)
(* Calls of the grouped operators                                          *)
(***************************************************************************)

\* The largest number of groups of a call.
MaxG == 4

\* The largest number of consecutive calls.
MaxCalls == 2

GroupedTensor(sizes, dtype) ==
  [has_value |-> TRUE, sizes |-> sizes, dtype |-> dtype, content |-> "data",
   is_cuda |-> TRUE, is_contiguous |-> TRUE, device |-> "cuda:0"]

IndexTensor(data, dtype) ==
  [has_value |-> TRUE, sizes |-> <<Len(data)>>, dtype |-> dtype, data |-> data,
   device |-> "cuda:0"]

RECURSIVE Total(_)
Total(s) ==
  IF s = <<>> THEN 0 ELSE Head(s) + Total(Tail(s))

\* The ends of consecutive groups of the given sizes.
Boundaries(sizes) ==
  [i \in 1..Len(sizes) |-> Total(SubSeq(sizes, 1, i))]

\* The sizes of up to n groups, each size one of values.
GroupSizes(n, values) ==
  UNION {[1..G -> values] : G \in 1..n}

StackedCall(M_sizes, N, K) ==
  [XQ      |-> GroupedTensor(<<Total(M_sizes), K>>, "float8_e4m3fnuz"),
   WQ      |-> GroupedTensor(<<Len(M_sizes), N, K>>, "float8_e4m3fnuz"),
   x_scale |-> GroupedTensor(<<Total(M_sizes)>>, "float"),
   w_scale |-> GroupedTensor(<<Len(M_sizes), N>>, "float"),
   M_sizes |-> IndexTensor(M_sizes, "long")]

Bf16StackedCall(M_sizes, N, K) ==
  [X       |-> GroupedTensor(<<Total(M_sizes), K>>, "bfloat16"),
   W       |-> GroupedTensor(<<Len(M_sizes), N, K>>, "bfloat16"),
   M_sizes |-> IndexTensor(M_sizes, "long")]

GroupedMmArgs(XQ, WQ, x_scale, w_scale, offsets, out) ==
  [XQ      |-> GroupedTensor(XQ, "float8_e4m3fnuz"),
   WQ      |-> GroupedTensor(WQ, "float8_e4m3fnuz"),
   x_scale |-> GroupedTensor(x_scale, "float"),
   w_scale |-> GroupedTensor(w_scale, "float"),
   offsets |-> offsets,
   out     |-> Tensor(out, "bfloat16", "stale")]

\* A call of f8f8bf16_rowwise_grouped_mm whose dynamic dimension is split in
\* groups of the given sizes; d1 and d2 are its two other dimensions, in the
\* order M, N, K.
RaggedCall(input_type, sizes, d1, d2) ==
  LET G == Len(sizes)
      total == Total(sizes)
      offsets == IndexTensor(Boundaries(sizes), "int")
  IN  IF input_type = "_2D3D"
      THEN GroupedMmArgs(<<total, d2>>, <<G, d1, d2>>, <<total>>, <<G, d1>>,
                         offsets, <<total, d1>>)
      ELSE IF input_type = "_3D2D"
      THEN GroupedMmArgs(<<G, d1, d2>>, <<total, d2>>, <<G, d1>>, <<total>>,
                         offsets, <<d1, total>>)
      ELSE GroupedMmArgs(<<d1, total>>, <<d2, total>>, <<G * d1>>, <<G * d2>>,
                         offsets, <<G, d1, d2>>)

\* A call of f8f8bf16_rowwise_grouped_mm on G problems of one shape.
BatchedCall(G, M, N, K) ==
  GroupedMmArgs(<<G, M, K>>, <<G, N, K>>, <<G, M>>, <<G, N>>, nullopt, <<G, M, N>>)

RaggedTypes == {"_2D3D", "_3D2D", "_2D2D"}

GroupedOps ==
  {"f8f8bf16_rowwise_grouped_stacked", "bf16bf16bf16_grouped_stacked",
   "f8f8bf16_rowwise_grouped_mm"}

\* A stacked call whose XQ has two rows more than M_sizes add up to.
StackedCallWithSlack(M_sizes, N, K) ==
  [StackedCall(M_sizes, N, K) EXCEPT
     !.XQ = GroupedTensor(<<Total(M_sizes) + 2, K>>, "float8_e4m3fnuz"),
     !.x_scale = GroupedTensor(<<Total(M_sizes) + 2>>, "float")]

\* A 2D-3D call whose XQ has two rows more than the last offset.
RaggedCallWithSlack(sizes, N, K) ==
  LET G == Len(sizes)
      total == Total(sizes) + 2
  IN  GroupedMmArgs(<<total, K>>, <<G, N, K>>, <<total>>, <<G, N>>,
                    IndexTensor(Boundaries(sizes), "int"), <<total, N>>)

\* The calls whose argument setup is followed thread by thread.
ArgsCalls(o) ==
  IF o = "f8f8bf16_rowwise_grouped_stacked"
  THEN {StackedCall(s, nk[1], nk[2]) :
          s \in GroupSizes(MaxG, {0, 3, 5}), nk \in {<<512, 512>>, <<256, 512>>}}
       \cup {StackedCallWithSlack(<<3, 5>>, 512, 512)}
  ELSE IF o = "bf16bf16bf16_grouped_stacked"
  THEN {Bf16StackedCall(s, nk[1], nk[2]) :
          s \in GroupSizes(MaxG, {0, 3, 5}), nk \in {<<512, 512>>, <<256, 512>>}}
  ELSE {RaggedCall(t, s, d[1], d[2]) :
          t \in RaggedTypes, s \in GroupSizes(MaxG, {0, 10, 15}),
          d \in {<<512, 512>>, <<512, 0>>}}
       \cup {BatchedCall(G, d[1], d[2], d[3]) :
               G \in 1..MaxG, d \in {<<2, 512, 512>>, <<2, 512, 0>>, <<0, 512, 512>>}}
       \cup {RaggedCallWithSlack(<<10, 15>>, 512, 512)}
       \cup {RaggedCall("_2D3D", s, 512, 512) : s \in {<<3, 0, 5>>, <<0, 5, 3, 3>>}}

\* The threads a launch starts; for the zeroing kernel, whose threads are
\* followed block by block, its blocks.
LaunchThreads(l) ==
  IF l = NoLaunch THEN {}
  ELSE IF l.kernel = "set_kernel_args_fixed_nk_kernel_zeroing"
  THEN 0..(l.numBlocks - 1)
  ELSE 0..(l.group_count - 1)

\* The records of the argument buffer allocated for a launch.
LaunchGroups(l) ==
  IF l = NoLaunch THEN {} ELSE 0..(l.group_count - 1)

\* The device once the kernel l is enqueued: its threads are at their start,
\* the argument buffer is fresh memory and so is the shared counter.
Enqueue(l) ==
  /\ launch' = l
  /\ pc' = [t \in LaunchThreads(l) |-> "start"]
  /\ kernel_args' = [t \in LaunchGroups(l) |-> unwritten_args]
  /\ non_zero_idx' = [t \in LaunchThreads(l) |-> -1]
  /\ non_zero_counter' \in
       IF l.kernel = "set_kernel_args" THEN SharedMemoryGarbage ELSE {0}

GroupedReturns(h) ==
  /\ ret' = h.ret
  /\ phase' = "returned"
  /\ Enqueue(h.launch)
  /\ UNCHANGED <<op, args, FBGEMM_AUTOTUNE_ENABLE, calls, history, output_memory>>
  /\ UNCHANGED embedding

Call_f8f8bf16_rowwise_grouped_stacked ==
  /\ phase = "called" /\ op = "f8f8bf16_rowwise_grouped_stacked"
  /\ GroupedReturns(f8f8bf16_rowwise_grouped_stacked(
       args.XQ, args.WQ, args.x_scale, args.w_scale, args.M_sizes))
  /\ UNCHANGED cache

Call_bf16bf16bf16_grouped_stacked ==
  /\ phase = "called" /\ op = "bf16bf16bf16_grouped_stacked"
  /\ \E pow2 \in nextPow2(args.X.sizes[1]) :
       GroupedReturns(bf16bf16bf16_grouped_stacked(args.X, args.W, args.M_sizes, pow2))
  /\ UNCHANGED cache

Call_f8f8bf16_rowwise_grouped_mm ==
  /\ phase = "called" /\ op = "f8f8bf16_rowwise_grouped_mm"
  /\ \E fastest \in {get_fp8_rowwise_grouped_kernels[i] :
                       i \in DOMAIN get_fp8_rowwise_grouped_kernels} :
       LET h == f8f8bf16_rowwise_grouped_mm(
                  args.XQ, args.WQ, args.x_scale, args.w_scale, args.offsets,
                  args.out, FBGEMM_AUTOTUNE_ENABLE, cache, fastest)
       IN  /\ GroupedReturns(h)
           /\ cache' = h.cache

InitArgs ==
  /\ op \in GroupedOps
  /\ args \in ArgsCalls(op)
  /\ phase = "called"
  /\ ret = Pending
  /\ DeviceIdle
  /\ FBGEMM_AUTOTUNE_ENABLE = FALSE
  /\ FirstCall

NextArgs ==
  \/ Call_f8f8bf16_rowwise_grouped_stacked
  \/ Call_bf16bf16bf16_grouped_stacked
  \/ Call_f8f8bf16_rowwise_grouped_mm
  \/ \E thread_idx \in Threads : set_kernel_args_default(thread_idx)
  \/ syncthreads
  \/ \E thread_idx \in Threads : set_kernel_args_write(thread_idx)
  \/ \E thread_idx \in Threads : set_kernel_args_m_sizes_kernel(thread_idx)

SpecArgs == InitArgs /\ [][NextArgs]_vars

\* The calls of f8f8bf16_rowwise_grouped_mm that are made one after another.
\* Their dynamic dimension is 6 or 8 in one group, or 1 in two groups of which
\* the first is empty.
TunedSplits ==
  {<<6>>, <<8>>, <<0, 1>>}

\* Calls of each topology with N = K = 512 or M = N = 512 around the dynamic
\* dimension, and calls of each topology whose K is 0.
TunedCalls ==
  {RaggedCall(t, s, 512, 512) : t \in RaggedTypes, s \in TunedSplits}
    \cup {BatchedCall(Len(s), Total(s), 512, 512) : s \in TunedSplits}
    \cup {RaggedCall("_2D3D", <<6>>, 512, 0), RaggedCall("_3D2D", <<6>>, 512, 0),
          RaggedCall("_2D2D", <<0>>, 512, 512), BatchedCall(1, 6, 512, 0)}

\* The caller makes another call once the device has drained the work of the
\* last one; in between it may define or undefine FBGEMM_AUTOTUNE_ENABLE.
NextCall ==
  /\ phase = "returned"
  /\ calls < MaxCalls
  /\ \A t \in Threads : pc[t] = "done"
  /\ history' = Append(history, [args |-> args, ret |-> ret])
  /\ calls' = calls + 1
  /\ args' \in TunedCalls
  /\ FBGEMM_AUTOTUNE_ENABLE' \in BOOLEAN
  /\ phase' = "called"
  /\ ret' = Pending
  /\ launch' = NoLaunch
  /\ pc' = <<>>
  /\ kernel_args' = <<>>
  /\ non_zero_idx' = <<>>
  /\ non_zero_counter' = 0
  /\ UNCHANGED <<op, cache, output_memory>>
  /\ UNCHANGED embedding

InitGrouped ==
  /\ op = "f8f8bf16_rowwise_grouped_mm"
  /\ args \in TunedCalls
  /\ phase = "called"
  /\ ret = Pending
  /\ DeviceIdle
  /\ FBGEMM_AUTOTUNE_ENABLE \in BOOLEAN
  /\ FirstCall

NextGrouped ==
  \/ Call_f8f8bf16_rowwise_grouped_mm
  \/ \E thread_idx \in Threads : set_kernel_args_default(thread_idx)
  \/ syncthreads
  \/ \E thread_idx \in Threads : set_kernel_args_write(thread_idx)
  \/ NextCall

SpecGrouped == InitGrouped /\ [][NextGrouped]_vars

(***************************************************************************)
(* C2, C7 .. C10: the grouped operators                                    *)
(***************************************************************************)

\* The call selected a kernel and invoked it.
InvokedKernel(r) ==
  r.status = "ok" /\ \E i \in DOMAIN r.trace : r.trace[i].ev = "kernel"

\* C2: f8f8bf16_rowwise_grouped_mm selects and invokes a kernel only with M, N
\* and K all positive, the dynamic dimension counted per group after its
\* division by G.
C2_GroupedMmSelectsOnlyPositive ==
  (phase = "returned" /\ op = "f8f8bf16_rowwise_grouped_mm" /\ InvokedKernel(ret))
  => ret.selection.M > 0 /\ ret.selection.N > 0 /\ ret.selection.K > 0

AllDone == Threads # {} /\ \A t \in Threads : pc[t] = "done"

\* The groups of the launch whose resolved M, N and K are all positive.
NonZeroGroups ==
  {t \in Threads :
     LET g == set_kernel_args_group(launch, t)
     IN  g.M_group > 0 /\ g.N_group > 0 /\ g.K_group > 0}

\* C7: at every point of every interleaving of the threads of set_kernel_args,
\* the slots obtained so far are distinct, only nonzero groups hold one, a
\* finished nonzero group holds one, and once all threads have finished the
\* slots handed out are as many as the nonzero groups.
C7_DistinctSlotsForNonZeroGroups ==
  launch.kernel = "set_kernel_args"
  => /\ \A t \in Threads : non_zero_idx[t] # -1 => t \in NonZeroGroups
     /\ \A t \in NonZeroGroups : pc[t] = "done" => non_zero_idx[t] # -1
     /\ \A t, u \in Threads :
          (t # u /\ non_zero_idx[t] # -1) => non_zero_idx[t] # non_zero_idx[u]
     /\ AllDone =>
          /\ Cardinality({non_zero_idx[t] : t \in NonZeroGroups})
               = Cardinality(NonZeroGroups)
          /\ non_zero_counter = Cardinality(NonZeroGroups)

\* All threads have finished for four groups of which two are nonzero, and the
\* later of the two got the earlier slot.
C7_Witness ==
  /\ launch.kernel = "set_kernel_args" /\ AllDone
  /\ launch.group_count = 4
  /\ Cardinality(NonZeroGroups) = 2
  /\ \E t, u \in NonZeroGroups : t < u /\ non_zero_idx[u] < non_zero_idx[t]

StackedOps ==
  {"f8f8bf16_rowwise_grouped_stacked", "bf16bf16bf16_grouped_stacked"}

\* The slots of the argument buffer that hold a record written for a group:
\* neither fresh memory nor the default record.
GroupRecords ==
  {s \in DOMAIN kernel_args :
     kernel_args[s] # unwritten_args /\ kernel_args[s] # default_group_args}

\* C8: once the argument setup of a stacked operator has finished, the records
\* that describe a group's problem are as many as the groups with
\* M_sizes[i] > 0, and none of them is the record of a group with M_sizes[i] = 0.
C8_StackedRecordsForNonEmptyGroups ==
  (op \in StackedOps /\ AllDone)
  => /\ Cardinality(GroupRecords)
          = Cardinality({i \in DOMAIN args.M_sizes.data : args.M_sizes.data[i] > 0})
     /\ \A s \in GroupRecords : kernel_args[s].M > 0

\* The offsets of a call of f8f8bf16_rowwise_grouped_mm with 2D XQ and 3D WQ.
RaggedM ==
  op = "f8f8bf16_rowwise_grouped_mm" /\ launch.kernel = "set_kernel_args"
    /\ launch.input_type = "_2D3D"

\* C9 as stated: the offsets are the boundaries of the groups, the first one
\* included, one more than there are groups, and the M of each group is the
\* difference of its two boundaries.
C9_OffsetsAreBoundaries ==
  RaggedM
  => /\ launch.group_count = Len(args.offsets.data) - 1
     /\ \A t \in Threads :
          set_kernel_args_group(launch, t).M_group
            = args.offsets.data[t + 2] - args.offsets.data[t + 1]

\* C9: the offsets are the ends of the groups, as many as there are groups, and
\* the first group starts at 0: the M of a group is its end minus the end of the
\* group before it, and the records written for the nonzero groups carry it.
\* offsets = [0, 10, 10, 25] describes four groups of M = 0, 10, 0 and 15.
C9_OffsetsAreGroupEnds ==
  RaggedM
  => LET offsets == args.offsets.data
         M_of(t) == offsets[t + 1] - (IF t = 0 THEN 0 ELSE offsets[t])
     IN  /\ launch.group_count = Len(offsets)
         /\ \A t \in Threads : set_kernel_args_group(launch, t).M_group = M_of(t)
         /\ \A t \in Threads :
              non_zero_idx[t] # -1 => kernel_args[non_zero_idx[t]].M = M_of(t)
         /\ (offsets = <<0, 10, 10, 25>> /\ launch.N > 0 /\ launch.K > 0 /\ AllDone)
              => /\ launch.group_count = 4
                 /\ NonZeroGroups = {1, 3}
                 /\ kernel_args[non_zero_idx[1]].M = 10
                 /\ kernel_args[non_zero_idx[3]].M = 15

\* The setup for offsets = [0, 10, 10, 25] has finished.
C9_Witness ==
  /\ RaggedM /\ AllDone
  /\ args.offsets.data = <<0, 10, 10, 25>>
  /\ launch.N > 0 /\ launch.K > 0
  /\ non_zero_counter = 2

\* The power of two a size rounds up to.
RoundedUp(x) ==
  LET powers == {Pow2(i) : i \in 0..12}
  IN  CHOOSE p \in powers : p >= x /\ \A q \in powers : q >= x => p <= q

RoundedKey(s) ==
  to_string(RoundedUp(s.M)) \o "_" \o to_string(RoundedUp(s.N)) \o "_"
    \o to_string(RoundedUp(s.K))

Tuned(r) ==
  InvokedKernel(r) /\ r.selection.by = "get_kernel_via_tuning"

\* C10: when two consecutive calls of f8f8bf16_rowwise_grouped_mm both tune and
\* their per-group sizes round up to the same powers of two, both use the key
\* made of the three rounded sizes, the first measures every candidate and
\* stores the winner, and the second returns that kernel and measures nothing;
\* the entry a call stored or found stays in the cache as it was.
C10_TuningCacheIdempotent ==
  (phase = "returned" /\ op = "f8f8bf16_rowwise_grouped_mm")
  => /\ \A i \in DOMAIN history :
          Tuned(history[i].ret)
            => /\ history[i].ret.selection.shape_key \in DOMAIN cache
               /\ cache[history[i].ret.selection.shape_key]
                    = history[i].ret.selection.kernel
     /\ (/\ history # <<>> /\ Tuned(history[Len(history)].ret) /\ Tuned(ret)
         /\ RoundedKey(history[Len(history)].ret.selection) = RoundedKey(ret.selection))
        => LET first == history[Len(history)].ret.selection
           IN  /\ first.shape_key = RoundedKey(ret.selection)
               /\ ret.selection.shape_key = RoundedKey(ret.selection)
               /\ Len(history) = 1
                    => first.measured = Len(get_fp8_rowwise_grouped_kernels)
               /\ ret.selection.measured = 0
               /\ ret.selection.kernel = first.kernel

\* A second tuned call of another shape with the same rounded sizes returned.
C10_Witness ==
  /\ phase = "returned" /\ op = "f8f8bf16_rowwise_grouped_mm"
  /\ Len(history) = 1 /\ Tuned(history[1].ret) /\ Tuned(ret)
  /\ history[1].ret.selection.M = 6 /\ ret.selection.M = 8
  /\ history[1].ret.selection.shape_key = ret.selection.shape_key
  /\ history[1].ret.selection.measured = Len(get_fp8_rowwise_grouped_kernels)
  /\ ret.selection.measured = 0


\* The output of a call as rows of values: a 3D output of sizes (G, M, N) has
\* G * M rows of N values.
OutRows(sizes) ==
  IF Len(sizes) = 3 THEN sizes[1] * sizes[2] ELSE sizes[1]

OutCols(sizes) == sizes[Len(sizes)]

\* The value at row r and column c of the output lies in the region that the
\* record a addresses: M rows of N values from E on, StrideE apart.
InRegion(a, r, c) ==
  /\ a.StrideE > 0
  /\ r >= (a.E \div a.StrideE) /\ r < (a.E \div a.StrideE) + a.M
  /\ c >= (a.E % a.StrideE) /\ c < (a.E % a.StrideE) + a.N

\* The slots whose record addresses the value at row r and column c.
Covering(r, c) ==
  {s \in GroupRecords : InRegion(kernel_args[s], r, c)}

\* The columns where a region starts or ends, and the first column: whether a
\* value is covered depends on its column only through the interval between
\* two of them, so these columns stand for all.
RegionColumns(cols) ==
  {0} \cup {c \in UNION {{(kernel_args[s].E % kernel_args[s].StrideE),
                          (kernel_args[s].E % kernel_args[s].StrideE) + kernel_args[s].N} :
                         s \in {g \in GroupRecords : kernel_args[g].StrideE > 0}} :
            c < cols}

\* C17: once the setup of an accepted grouped call has finished, the regions of
\* the output addressed by the records are pairwise disjoint and every value of
\* the output lies in one of them (the operators store no zeros of their own,
\* so a value outside every region is left unwritten).
C17_OutputExactlyCovered ==
  (op \in GroupedOps /\ AllDone /\ ret.status = "ok")
  => \A r \in 0..(OutRows(ret.value.sizes) - 1) :
       \A c \in RegionColumns(OutCols(ret.value.sizes)) :
         Cardinality(Covering(r, c)) = 1

\* The regions never overlap: no value lies in two of them.
RegionsDisjoint ==
  (op \in GroupedOps /\ AllDone /\ ret.status = "ok")
  => \A r \in 0..(OutRows(ret.value.sizes) - 1) :
       \A c \in RegionColumns(OutCols(ret.value.sizes)) :
         Cardinality(Covering(r, c)) <= 1

\* C19: a call of f8f8bf16_rowwise_grouped_mm made while FBGEMM_AUTOTUNE_ENABLE
\* is not defined leaves the tuning cache as it was and, when it selects a
\* kernel, selects the one the heuristic gives for its sizes, whatever the
\* cache holds: it measures nothing and uses no cache key.
C19_UntunedCallLeavesCache ==
  [][(/\ phase = "called" /\ phase' = "returned"
      /\ op = "f8f8bf16_rowwise_grouped_mm"
      /\ ~FBGEMM_AUTOTUNE_ENABLE)
     => /\ cache' = cache
        /\ InvokedKernel(ret') =>
             /\ ret'.selection.by = "get_kernel_via_heuristic"
             /\ ret'.selection.kernel =
                  get_kernel_via_heuristic(ret'.selection.M, ret'.selection.N,
                                           ret'.selection.K)
             /\ ret'.selection.measured = 0
             /\ ret'.selection.shape_key = ""
             /\ \A i \in DOMAIN ret'.trace :
                  ret'.trace[i].ev # "get_kernel_via_tuning"]_vars

\* A call without the flag returned after a tuned call had stored a kernel
\* under the key of the same rounded sizes.
C19_Witness ==
  /\ phase = "returned" /\ op = "f8f8bf16_rowwise_grouped_mm"
  /\ ~FBGEMM_AUTOTUNE_ENABLE
  /\ Len(history) = 1 /\ Tuned(history[1].ret)
  /\ InvokedKernel(ret)
  /\ ret.selection.by = "get_kernel_via_heuristic"
  /\ RoundedKey(ret.selection) \in DOMAIN cache
  /\ cache[RoundedKey(ret.selection)] # ret.selection.kernel

\* The threads of set_kernel_args that have been given a slot.
Slotted == {t \in Threads : non_zero_idx[t] # -1}

\* C22 as stated: the records of the nonzero groups are written in the order
\* of the group indices: nonzero groups i < j are in slots s_i < s_j.
C22_GroupIndexOrder ==
  launch.kernel = "set_kernel_args"
  => \A t, u \in Slotted : t < u => non_zero_idx[t] < non_zero_idx[u]

\* C22: the records of the nonzero groups are written in the order in which
\* their threads execute atomicAdd: the thread that executes it after k others
\* have is given slot k and writes the record of its own group there, whatever
\* its group index.
C22_SlotsInAtomicAddOrder ==
  [][launch.kernel = "set_kernel_args"
     => \A t \in Threads :
          (non_zero_idx[t] = -1 /\ non_zero_idx'[t] # -1)
            => /\ non_zero_idx'[t] = Cardinality(Slotted)
               /\ \A u \in Slotted : non_zero_idx[u] < non_zero_idx'[t]
               /\ kernel_args'[non_zero_idx'[t]]
                    = kernel_group_args(launch, set_kernel_args_group(launch, t))]_vars

\* Three nonzero groups have been written in the reverse of their index order.
C22_Witness ==
  /\ launch.kernel = "set_kernel_args" /\ AllDone
  /\ \E t, u, v \in Slotted :
       /\ t < u /\ u < v
       /\ non_zero_idx[v] = 0 /\ non_zero_idx[u] = 1 /\ non_zero_idx[t] = 2
       /\ kernel_args[0] = kernel_group_args(launch, set_kernel_args_group(launch, v))

RaggedK ==
  op = "f8f8bf16_rowwise_grouped_mm" /\ launch.kernel = "set_kernel_args"
    /\ launch.input_type = "_2D2D"

\* C23 as stated: with 2D-2D inputs the records of all groups address the same
\* M x N region of the output.
C23_RaggedKSameRegion ==
  (RaggedK /\ AllDone)
  => \A s, t \in GroupRecords : kernel_args[s].E = kernel_args[t].E

\* C23: with 2D-2D inputs the output has sizes (G, M, N) and the record of
\* group g addresses block g of it, M x N values from g * M * N on: the groups
\* are placed in disjoint regions and nothing is accumulated across them.
C23_RaggedKDisjointBlocks ==
  RaggedK
  => /\ ret.status = "ok" => ret.value.sizes = <<launch.group_count, launch.M, launch.N>>
     /\ \A t \in Slotted :
          LET a == kernel_args[non_zero_idx[t]]
          IN  /\ a.E = t * launch.M * launch.N
              /\ a.M = launch.M /\ a.N = launch.N /\ a.StrideE = launch.N
     /\ \A t, u \in Slotted :
          t # u => \/ kernel_args[non_zero_idx[t]].E + launch.M * launch.N
                        <= kernel_args[non_zero_idx[u]].E
                   \/ kernel_args[non_zero_idx[u]].E + launch.M * launch.N
                        <= kernel_args[non_zero_idx[t]].E

\* The setup of a 2D-2D call with two nonzero groups has finished.
C23_Witness ==
  /\ RaggedK /\ AllDone /\ ret.status = "ok"
  /\ Cardinality(Slotted) >= 2
  /\ \E t, u \in Slotted : kernel_args[non_zero_idx[t]].E # kernel_args[non_zero_idx[u]].E

\* The launch is one of the two ragged-M forms of set_kernel_args.
RaggedMLaunch ==
  /\ launch.kernel = "set_kernel_args"
  /\ launch.M_sizes.has_value \/ launch.input_type = "_2D3D"

\* The M of every group, as the descriptor of the launch gives it.
RaggedMSizes ==
  IF launch.M_sizes.has_value THEN launch.M_sizes.data
  ELSE LET offsets == launch.offsets.data
       IN  [i \in DOMAIN offsets |->
              offsets[i] - (IF i = 1 THEN 0 ELSE offsets[i - 1])]

\* The launch of the other form for the same groups: offsets that are the
\* running sums of M_sizes, or M_sizes that are the differences of offsets.
OtherRaggedMForm ==
  IF launch.M_sizes.has_value
  THEN [launch EXCEPT !.M_sizes = nullptr,
                      !.offsets = DevicePtr(Boundaries(launch.M_sizes.data)),
                      !.input_type = "_2D3D"]
  ELSE [launch EXCEPT !.M_sizes = DevicePtr(RaggedMSizes),
                      !.offsets = nullptr,
                      !.input_type = nullopt]

\* The records set_kernel_args writes for the launch l.
RecordsOf(l) ==
  {kernel_group_args(l, set_kernel_args_group(l, t)) :
     t \in {u \in 0..(l.group_count - 1) :
              LET g == set_kernel_args_group(l, u)
              IN  GroupNonZero(g.M_group, g.N_group, g.K_group)}}

\* The record of group i of sizes: the rows before it locate A, x_scale and the
\* output, the group index locates B and w_scale.
RaggedMRecord(sizes, i, N, K) ==
  LET rows == Total(SubSeq(sizes, 1, i))
  IN  KernelArguments(rows * K, i * N * K, i * N, rows, rows * N,
                      sizes[i + 1], N, K, K, K, N)

\* C25: the two ragged-M forms give the same records: once set_kernel_args
\* has finished for M_sizes, or for 2D-3D offsets, the records in the buffer
\* are those of the nonzero groups, each with M = M_sizes[i], A and x_scale
\* offset by the rows before the group (times K for A), the output by those
\* rows times N, B and w_scale by the group index (times N * K and N), and
\* they are the records the other form writes for the same groups.
C25_RaggedMFormsEquivalent ==
  (RaggedMLaunch /\ AllDone)
  => LET written == {kernel_args[s] : s \in GroupRecords}
         sizes == RaggedMSizes
     IN  /\ written = {RaggedMRecord(sizes, i, launch.N, launch.K) :
                         i \in {j \in 0..(Len(sizes) - 1) :
                                  sizes[j + 1] > 0 /\ launch.N > 0 /\ launch.K > 0}}
         /\ written = RecordsOf(OtherRaggedMForm)

\* The M_sizes form has finished for groups of 0, 5, 3 and 3 rows.
C25_Witness ==
  /\ RaggedMLaunch /\ AllDone
  /\ launch.M_sizes.has_value /\ launch.M_sizes.data = <<0, 5, 3, 3>>
  /\ Cardinality(GroupRecords) = 3
  /\ \E s \in GroupRecords : kernel_args[s] = RaggedMRecord(<<0, 5, 3, 3>>, 3, 512, 512)

\* The offsets form has finished for the same groups.
RaggedMOffsetsFormReached ==
  ~(/\ RaggedMLaunch /\ AllDone
    /\ ~launch.M_sizes.has_value /\ launch.offsets.data = <<0, 5, 8, 11>>
    /\ Cardinality(GroupRecords) = 3
    /\ \E s \in GroupRecords : kernel_args[s] = RaggedMRecord(<<0, 5, 3, 3>>, 3, 512, 512))

\* C26: in set_kernel_args every default record is written before the barrier
\* and every record of a group after it, so a slot given to a group keeps that
\* group's record, and once all threads have finished the buffer holds the
\* records of the nonzero groups in the slots [0, nnz) and the default record,
\* with M = N = K = 0, in the slots [nnz, G).
C26_DefaultsThenRecords ==
  launch.kernel = "set_kernel_args"
  => LET nnz == Cardinality(NonZeroGroups)
     IN  /\ \A t \in Slotted :
              /\ \A u \in Threads : pc[u] \in {"resolve", "done"}
              /\ kernel_args[non_zero_idx[t]]
                   = kernel_group_args(launch, set_kernel_args_group(launch, t))
         /\ AllDone =>
              /\ {kernel_args[s] : s \in 0..(nnz - 1)} = RecordsOf(launch)
              /\ Cardinality(RecordsOf(launch)) = nnz
              /\ \A s \in nnz..(launch.group_count - 1) :
                   /\ kernel_args[s] = default_group_args
                   /\ kernel_args[s].M = 0 /\ kernel_args[s].N = 0
                   /\ kernel_args[s].K = 0

\* Four groups of which the second and the fourth are nonzero have finished:
\* two records and then two default records.
C26_Witness ==
  /\ launch.kernel = "set_kernel_args" /\ AllDone
  /\ launch.group_count = 4 /\ NonZeroGroups = {1, 3}
  /\ kernel_args[0] # default_group_args /\ kernel_args[1] # default_group_args
  /\ kernel_args[2] = default_group_args /\ kernel_args[3] = default_group_args

(***************************************************************************)
(* Calls of the dynamic operators and of the descriptor checks             *)
(***************************************************************************)

EntryOps ==
  {"f8f8bf16_rowwise_grouped_dynamic", "bf16bf16bf16_grouped_dynamic",
   "set_dynamic_kernel_args", "f8f8bf16_rowwise_grouped_mm",
   "f8f8bf16_rowwise_grouped_stacked"}

\* The sizes (N, K) of the dynamic calls: the smallest accepted, an N that is
\* not a multiple of 8, and an N below 512.
DynamicNKs == {<<512, 512>>, <<516, 512>>, <<256, 512>>}

\* The number of rows per group of the dynamic calls.
DynamicMs == {0, 2, 8}

\* The zero_start_index_M of G groups of M rows.
ZeroStarts(G, M) == [1..G -> {0, 1, M} \cap 0..M]

DynamicCall(G, M, N, K, zero_start_index_M, dtype, zeroing_output_tensor) ==
  [XQ      |-> GroupedTensor(<<G, M, K>>, "float8_e4m3fnuz"),
   WQ      |-> GroupedTensor(<<G, N, K>>, "float8_e4m3fnuz"),
   x_scale |-> GroupedTensor(<<G, M>>, "float"),
   w_scale |-> GroupedTensor(<<G, N>>, "float"),
   zero_start_index_M |-> IndexTensor(zero_start_index_M, dtype),
   zeroing_output_tensor |-> zeroing_output_tensor]

Bf16DynamicCall(G, M, N, K, zero_start_index_M, dtype) ==
  [A |-> GroupedTensor(<<G, M, K>>, "bfloat16"),
   B |-> GroupedTensor(<<G, N, K>>, "bfloat16"),
   zero_start_index_M |-> IndexTensor(zero_start_index_M, dtype)]

\* A call of set_dynamic_kernel_args for two groups, with each of its two
\* descriptors there or not.
SetDynamicCall(with_zero_start, with_M_sizes, zeroing_output_tensor) ==
  [XQ |-> GroupedTensor(IF with_M_sizes THEN <<3, 512>> ELSE <<2, 2, 512>>,
                        "float8_e4m3fnuz"),
   WQ |-> GroupedTensor(<<2, 512, 512>>, "float8_e4m3fnuz"),
   zero_start_index_M |->
     IF with_zero_start THEN IndexTensor(<<1, 0>>, "long") ELSE nullopt,
   M_sizes |-> IF with_M_sizes THEN IndexTensor(<<0, 3>>, "long") ELSE nullopt,
   zeroing_output_tensor |-> zeroing_output_tensor]

\* Calls of f8f8bf16_rowwise_grouped_mm of each topology, as they should be
\* made and with the offsets left out or added.
DescriptorCalls ==
  LET ragged == {RaggedCall(t, s, 512, 512) :
                   t \in RaggedTypes, s \in {<<3>>, <<0, 3>>}}
      batched == {BatchedCall(G, 2, 512, 512) : G \in 1..2}
  IN  ragged \cup batched
        \cup {[c EXCEPT !.offsets = nullopt] : c \in ragged}
        \cup {[c EXCEPT !.offsets = IndexTensor(<<2>>, "int")] : c \in batched}

\* Calls of f8f8bf16_rowwise_grouped_mm with no group: empty offsets and a
\* leading dimension of size 0, with an output that is not empty.
NoGroupCalls ==
  {GroupedMmArgs(<<6, 512>>, <<0, 512, 512>>, <<6>>, <<0, 512>>,
                 IndexTensor(<<>>, "int"), <<6, 512>>),
   GroupedMmArgs(<<0, 2, 512>>, <<512, 512>>, <<0, 2>>, <<512>>,
                 IndexTensor(<<>>, "int"), <<2, 512>>),
   GroupedMmArgs(<<2, 0>>, <<512, 0>>, <<0>>, <<0>>,
                 IndexTensor(<<>>, "int"), <<0, 2, 512>>),
   BatchedCall(0, 2, 512, 512)}

EntryCalls(o) ==
  IF o = "f8f8bf16_rowwise_grouped_stacked"
  THEN {StackedCall(s, 512, 512) : s \in {<<>>, <<0>>, <<3, 5>>}}
  ELSE IF o = "f8f8bf16_rowwise_grouped_dynamic"
  THEN UNION {{DynamicCall(G, M, nk[1], nk[2], z, dtype, zeroing) :
                 z \in ZeroStarts(G, M), nk \in DynamicNKs,
                 dtype \in {"long", "int"}, zeroing \in BOOLEAN} :
              G \in 0..2, M \in DynamicMs}
  ELSE IF o = "bf16bf16bf16_grouped_dynamic"
  THEN UNION {{Bf16DynamicCall(G, M, nk[1], nk[2], z, dtype) :
                 z \in ZeroStarts(G, M) \cup ZeroStarts(G + 1, M),
                 nk \in DynamicNKs, dtype \in {"long", "int"}} :
              G \in 1..2, M \in DynamicMs}
  ELSE IF o = "set_dynamic_kernel_args"
  THEN {SetDynamicCall(z, m, zeroing) :
          z \in BOOLEAN, m \in BOOLEAN, zeroing \in BOOLEAN}
  ELSE DescriptorCalls \cup {BatchedCall(1, 2, 256, 512), BatchedCall(1, 2, 512, 256)}
         \cup NoGroupCalls

DynamicReturns(h) ==
  /\ ret' = h.ret
  /\ phase' = "returned"
  /\ Enqueue(h.launch)
  /\ output_memory' = h.output_memory
  /\ UNCHANGED <<op, args, FBGEMM_AUTOTUNE_ENABLE, cache, calls, history>>
  /\ UNCHANGED embedding

Call_f8f8bf16_rowwise_grouped_dynamic ==
  /\ phase = "called" /\ op = "f8f8bf16_rowwise_grouped_dynamic"
  /\ \E fresh \in UninitializedMemory :
       DynamicReturns(f8f8bf16_rowwise_grouped_dynamic(
         args.XQ, args.WQ, args.x_scale, args.w_scale, args.zero_start_index_M,
         args.zeroing_output_tensor, fresh))

Call_bf16bf16bf16_grouped_dynamic ==
  /\ phase = "called" /\ op = "bf16bf16bf16_grouped_dynamic"
  /\ \E pow2 \in nextPow2(args.A.sizes[2]) :
       DynamicReturns(bf16bf16bf16_grouped_dynamic(
         args.A, args.B, args.zero_start_index_M, pow2))

\* set_dynamic_kernel_args called on an output buffer that at::empty allocated.
Call_set_dynamic_kernel_args ==
  /\ phase = "called" /\ op = "set_dynamic_kernel_args"
  /\ \E fresh \in UninitializedMemory :
       LET set == set_dynamic_kernel_args(
                    args.XQ, args.WQ, args.zero_start_index_M, args.M_sizes,
                    args.zeroing_output_tensor)
       IN  IF set.err # ""
           THEN DynamicReturns(HostDynamic(Raise(set.err, <<>>), NoLaunch,
                                           Output("at::empty", fresh)))
           ELSE DynamicReturns(HostDynamic(
                  Return(nullopt, nullopt, <<Event(set.launch.kernel, "")>>),
                  set.launch, Output("at::empty", fresh)))

InitEntry ==
  /\ op \in EntryOps
  /\ args \in EntryCalls(op)
  /\ phase = "called"
  /\ ret = Pending
  /\ DeviceIdle
  /\ FBGEMM_AUTOTUNE_ENABLE = FALSE
  /\ FirstCall

NextEntry ==
  \/ Call_f8f8bf16_rowwise_grouped_dynamic
  \/ Call_bf16bf16bf16_grouped_dynamic
  \/ Call_set_dynamic_kernel_args
  \/ Call_f8f8bf16_rowwise_grouped_mm
  \/ Call_f8f8bf16_rowwise_grouped_stacked
  \/ \E thread_idx \in Threads : set_kernel_args_default(thread_idx)
  \/ syncthreads
  \/ \E thread_idx \in Threads : set_kernel_args_write(thread_idx)
  \/ \E thread_idx \in Threads : set_kernel_args_fixed_nk_kernel(thread_idx)
  \/ \E group_idx \in Threads : bf16_set_kernel_args_fixed_nk_kernel(group_idx)
  \/ \E block \in Threads : set_kernel_args_fixed_nk_kernel_zeroing(block)

SpecEntry == InitEntry /\ [][NextEntry]_vars

(***************************************************************************)
(* C14 .. C18: descriptors, shape limits, zeroing and the order of checks  *)
(***************************************************************************)

\* The call of f8f8bf16_rowwise_grouped_mm passes offsets with two 3D operands,
\* or no offsets with an operand that is 2D.
OffsetsMisused(a) ==
  \/ Len(a.XQ.sizes) = 3 /\ Len(a.WQ.sizes) = 3 /\ a.offsets.has_value
  \/ (Len(a.XQ.sizes) = 2 \/ Len(a.WQ.sizes) = 2) /\ ~a.offsets.has_value

\* The call of set_dynamic_kernel_args passes both M_sizes and
\* zero_start_index_M, or neither.
DynamicDescriptorMisused(a) ==
  a.M_sizes.has_value = a.zero_start_index_M.has_value

\* Nothing was launched and no record of an argument buffer exists.
NothingLaunched ==
  launch = NoLaunch /\ kernel_args = <<>> /\ pc = <<>>

FixedNKOps ==
  {"f8f8bf16_rowwise_grouped_dynamic", "bf16bf16bf16_grouped_dynamic",
   "f8f8bf16_rowwise_grouped_mm"}

\* The weight tensor of a call.
Weights(a) ==
  IF op = "bf16bf16bf16_grouped_dynamic" THEN a.B ELSE a.WQ

\* C15: a grouped entry point rejects a call whose N or K is below 512, and
\* neither builds arguments nor launches a kernel for it.
C15_SmallNKRejected ==
  (/\ phase = "returned" /\ op \in FixedNKOps
   /\ Len(Weights(args).sizes) = 3
   /\ (Weights(args).sizes[2] < 512 \/ Weights(args).sizes[3] < 512))
  => /\ ret.status = "error"
     /\ NothingLaunched

\* The setup kernel of the call has run to its end, or there was none.
SetupFinished ==
  phase = "returned" /\ \A t \in Threads : pc[t] = "done"

\* The value at offset e of the output is zero: it was stored as zero, or it
\* was never stored and the memory held zero when it was allocated. The compute
\* kernel writes rows below the M of a group's record and is not followed.
OutputZero(e) ==
  (e - (e % 8)) \in output_memory.zeroed \/ output_memory.fresh = "zero"

\* All N values of row m of group g of an output of sizes (G, M, N) are zero.
RowZero(g, m, M, N) ==
  \A n \in 0..(N - 1) : OutputZero((g * M + m) * N + n)

\* C16: after f8f8bf16_rowwise_grouped_dynamic has returned and its setup has
\* run, every row m >= zero_start_index_M[g] of every group g of the output is
\* zero, whether zeroing_output_tensor is true or false.
C16_DynamicRowsZeroed ==
  (/\ op = "f8f8bf16_rowwise_grouped_dynamic"
   /\ SetupFinished /\ ret.status = "ok")
  => LET G == args.XQ.sizes[1]
         M == args.XQ.sizes[2]
         N == args.WQ.sizes[2]
     IN  \A g \in 0..(G - 1) :
           \A m \in args.zero_start_index_M.data[g + 1]..(M - 1) :
             RowZero(g, m, M, N)

\* C18: a call of an entry point that fails a check has made no device action
\* before: it has allocated or filled no tensor and launched no kernel.
C18_ChecksBeforeDeviceWork ==
  (phase = "returned" /\ op \in FixedNKOps /\ ret.status = "error")
  => /\ ret.trace = <<>>
     /\ output_memory = NoOutput
     /\ NothingLaunched

DividingOps ==
  {"f8f8bf16_rowwise_grouped_stacked", "f8f8bf16_rowwise_grouped_dynamic",
   "f8f8bf16_rowwise_grouped_mm"}

\* C27: no grouped entry point divides by a group count of zero: whenever
\* numel / group_count of the stacked and dynamic operators or the /= G of
\* f8f8bf16_rowwise_grouped_mm is evaluated, the group count is positive, for
\* empty M_sizes, empty offsets and a leading dimension of size 0 too.
C27_NoDivisionByZeroGroupCount ==
  (phase = "returned" /\ op \in DividingOps) => ret.status # "undefined"

\* The 2D-2D and 3D-3D topologies have the group count in the output's
\* sizes, so with no group they leave at the early exit.
NoGroupEarlyExit ==
  (/\ phase = "returned" /\ op = "f8f8bf16_rowwise_grouped_mm"
   /\ args \in NoGroupCalls /\ Len(args.out.sizes) = 3)
  => ret.status = "ok" /\ launch = NoLaunch
(***************************************************************************)
(* Calls of the pruned hash map: an insert into an all-empty table, then   *)
(* one more insert or a lookup on the table it left                        *)
(***************************************************************************)

MaxHashCalls == 2   \* calls made on one table
MaxBatch == 2       \* indices in the first batch; a later call carries one

HashOps == {"pruned_hashmap_insert", "pruned_hashmap_lookup"}

\* The values of a tensor of indices: 1 and 5 fit both types, 9 is given as an
\* int and 2^32 + 5 as a long.  Hashed as ints, 1, 5 and 9 share the first
\* slot of a table of 2 slots and 1 and 5 that of a table of 3; hashed as
\* longs, 1 and 2^32 + 5 share the first slot of a table of 2 slots.
HashIndices(index_t) ==
  {Int64(1), Int64(5)} \cup
  (IF index_t = "long" THEN {Int64HiLo(1, 5)} ELSE {Int64(9)})

\* The dense index of the i-th row given to an insert: pruned, or its own.
DenseIndices(i) == {MinusOne, Int64(6 + i)}

\* Table layouts: one table of 2 or of 3 slots, or a table of no slot
\* followed by one of 2.
HashTableOffsets == {<<0, 2>>, <<0, 3>>, <<0, 0, 2>>}

\* offsets of n indices with one row for each of T tables.
HashOffsets(T, n) == IF T = 1 THEN {<<0, n>>} ELSE {<<0, k, n>> : k \in 0..n}

\* offsets of at most one index with two rows for one table, or with too
\* few rows for two tables.
OtherHashOffsets(T, n) ==
  IF n > 1 THEN {} ELSE IF T = 1 THEN {<<0, k, n>> : k \in 0..n} ELSE {<<0, n>>}

\* The calls of o with batches of at most n indices whose dense indices
\* start at first_dense.
HashCalls(o, hash_table_offsets, n, first_dense, other_offsets) ==
  LET T == Len(hash_table_offsets) - 1
  IN  UNION {
        {[indices |-> indices,
          dense_indices |-> dense_indices,
          offsets |-> offs,
          hash_table_offsets |-> hash_table_offsets,
          index_t |-> index_t] :
           indices \in [1..k -> HashIndices(index_t)],
           dense_indices \in
             IF o = "pruned_hashmap_insert"
             THEN {d \in [1..k -> DenseIndices(1) \cup DenseIndices(2)
                                    \cup DenseIndices(first_dense)] :
                     \A i \in 1..k : d[i] \in DenseIndices(first_dense + i - 1)}
             ELSE {nullopt},
           offs \in HashOffsets(T, k) \cup
                    (IF other_offsets THEN OtherHashOffsets(T, k) ELSE {})} :
        k \in 0..n, index_t \in {"int", "long"}}

InitHash ==
  /\ op = "pruned_hashmap_insert"
  /\ \E hash_table_offsets \in HashTableOffsets, hash_t \in {"int", "long"} :
       /\ args \in HashCalls(op, hash_table_offsets, MaxBatch, 1, TRUE)
       /\ hash_table =
            EmptyHashTable(hash_t, hash_table_offsets[Len(hash_table_offsets)])
  /\ phase = "called"
  /\ ret = Pending
  /\ DeviceIdle
  /\ FBGEMM_AUTOTUNE_ENABLE = FALSE
  /\ cache = EmptyCache
  /\ calls = 1
  /\ history = <<>>
  /\ output_data = <<>>

\* A call that came back leaves "returned"; one whose probe loop never leaves
\* stays in the call for ever.
HashReturns(r) ==
  /\ ret' = [status |-> r.status, dense_indices |-> r.dense_indices]
  /\ phase' = IF r.status = "diverged" THEN "diverged" ELSE "returned"
  /\ hash_table' = [hash_table EXCEPT !.acc = r.acc]
  /\ UNCHANGED <<op, args, FBGEMM_AUTOTUNE_ENABLE, cache, calls, history, output_data>>
  /\ UNCHANGED device

Call_pruned_hashmap_insert ==
  /\ phase = "called" /\ op = "pruned_hashmap_insert"
  /\ HashReturns(pruned_hashmap_insert_cpu(args, hash_table.scalar_type, hash_table.acc))

Call_pruned_hashmap_lookup ==
  /\ phase = "called" /\ op = "pruned_hashmap_lookup"
  /\ HashReturns(pruned_hashmap_lookup_cpu(args, hash_table.acc))

\* The caller's next call on the same table.
NextHashCall ==
  /\ phase = "returned" /\ calls < MaxHashCalls
  /\ history' = Append(history, [op |-> op, args |-> args, ret |-> ret])
  /\ calls' = calls + 1
  /\ op' \in HashOps
  /\ args' \in HashCalls(op', args.hash_table_offsets, 1, MaxBatch + 1, FALSE)
  /\ phase' = "called"
  /\ ret' = Pending
  /\ UNCHANGED <<FBGEMM_AUTOTUNE_ENABLE, cache, hash_table, output_data>>
  /\ UNCHANGED device

NextHash ==
  \/ Call_pruned_hashmap_insert
  \/ Call_pruned_hashmap_lookup
  \/ NextHashCall

SpecHash == InitHash /\ [][NextHash]_vars
(***************************************************************************)
(* Round trip of the pruned hash map                                       *)
(***************************************************************************)

\* The positions of the indices a call gives to table t.
PositionsOfTable(a, t) ==
  {p \in DOMAIN a.indices :
     \E r \in (t * hash_B(a))..(((t + 1) * hash_B(a)) - 1) :
        a.offsets[r + 1] < p /\ p <= a.offsets[r + 2]}

HashCapacity(a, t) == a.hash_table_offsets[t + 2] - a.hash_table_offsets[t + 1]

\* Every table of the batch receives fewer distinct indices than it has
\* slots.
FewerThanCapacity(a) ==
  \A t \in 0..(hash_T(a) - 1) :
     HashCapacity(a, t) = 0 \/
     Cardinality({a.indices[p] : p \in PositionsOfTable(a, t)}) < HashCapacity(a, t)

\* The positions at which the batch inserted idx into table t: the rows given
\* with dense_idx = -1 are pruned and not inserted.
Insertions(a, t, idx) ==
  {p \in PositionsOfTable(a, t) :
     a.indices[p] = idx /\ a.dense_indices[p] # MinusOne}

SetMax(S) == CHOOSE x \in S : \A y \in S : y <= x

\* What a lookup of idx in table t has to return after the insert of batch a.
RoundTrip(a, t, idx) ==
  IF HashCapacity(a, t) = 0 THEN idx
  ELSE IF Insertions(a, t, idx) = {} THEN MinusOne
  ELSE a.dense_indices[SetMax(Insertions(a, t, idx))]

\* A lookup is over, the one call before it being an insert that returned into
\* an all-empty table, of a batch that fills no table.
LookupAfterInsert ==
  /\ op = "pruned_hashmap_lookup" /\ phase # "called"
  /\ hash_B(args) > 0
  /\ Len(history) = 1
  /\ history[1].op = "pruned_hashmap_insert"
  /\ history[1].ret.status = "ok"
  /\ FewerThanCapacity(history[1].args)

\* C28: after an insert, into an all-empty table, of a batch that gives every
\* table fewer distinct indices than its capacity, a lookup returns for every
\* index the dense index of its last insertion, -1 for an index never
\* inserted or only given as pruned, and the index itself for a table of
\* capacity 0.
C28_RoundTrip ==
  LookupAfterInsert =>
    /\ ret.status = "ok"
    /\ \A t \in 0..(hash_T(args) - 1) : \A p \in PositionsOfTable(args, t) :
          ret.dense_indices[p] = RoundTrip(history[1].args, t, args.indices[p])

\* Every index and dense index of the batch is a value of the table's
\* element type.
FitsHashTable(a) ==
  \A p \in DOMAIN a.indices :
     /\ static_cast(hash_table.scalar_type, a.indices[p]) = a.indices[p]
     /\ static_cast(hash_table.scalar_type, a.dense_indices[p]) = a.dense_indices[p]

\* The round trip holds when the inserted values fit the table's element type
\* and the lookup's indices have the type of the insert's.
RoundTripWhenRepresentable ==
  (/\ LookupAfterInsert
   /\ FitsHashTable(history[1].args)
   /\ args.index_t = history[1].args.index_t)
  => /\ ret.status = "ok"
     /\ \A t \in 0..(hash_T(args) - 1) : \A p \in PositionsOfTable(args, t) :
           ret.dense_indices[p] = RoundTrip(history[1].args, t, args.indices[p])

\* The narrowing alone breaks the round trip: the types of the two calls
\* agree and the lookup still misses or invents an entry.
RoundTripWhenSameIndexType ==
  (LookupAfterInsert /\ args.index_t = history[1].args.index_t)
  => \A t \in 0..(hash_T(args) - 1) : \A p \in PositionsOfTable(args, t) :
        ret.dense_indices[p] = RoundTrip(history[1].args, t, args.indices[p])

\* A lookup found an inserted index behind another one, after a probe.
RoundTripAfterProbeReached ==
  ~(/\ LookupAfterInsert /\ ret.status = "ok"
    /\ FitsHashTable(history[1].args)
    /\ args.index_t = history[1].args.index_t
    /\ \E t \in 0..(hash_T(args) - 1) : \E p \in PositionsOfTable(args, t) :
         /\ HashCapacity(args, t) > 0
         /\ ret.dense_indices[p] # MinusOne
         /\ hash_table.acc[args.hash_table_offsets[t + 1]
                           + first_slot(args.index_t, args.indices[p],
                                        HashCapacity(args, t)) + 1][1]
              # args.indices[p])
(***************************************************************************)
(* Termination of the linear probes                                        *)
(***************************************************************************)

\* The table was all empty and every call made on it before this one was an
\* insert that returned.
AfterReturnedInserts ==
  /\ op \in HashOps
  /\ \A i \in DOMAIN history :
        history[i].op = "pruned_hashmap_insert" /\ history[i].ret.status = "ok"

\* C29: on every table reachable from an all-empty one by inserts that
\* returned, a table with every slot occupied included, a lookup terminates
\* for every queried index and a further insert for every inserted index.
C29_ProbeLoopsTerminate == AfterReturnedInserts => phase # "diverged"

\* Table t has no empty slot.
FullTable(t) ==
  \A s \in (args.hash_table_offsets[t + 1] + 1)..args.hash_table_offsets[t + 2] :
     hash_table.acc[s][1] # MinusOne

\* A probe loop that never leaves runs on a table without an empty slot.
DivergesOnFullTableOnly ==
  (AfterReturnedInserts /\ phase = "diverged")
  => \E t \in 0..(hash_T(args) - 1) : HashCapacity(args, t) > 0 /\ FullTable(t)

\* Lookups and inserts on a full table that do return: their index is in it.
FullTableCallReturned ==
  ~(/\ AfterReturnedInserts /\ phase = "returned" /\ calls = 2
    /\ Len(args.indices) = 1
    /\ (op = "pruned_hashmap_insert" => args.dense_indices[1] # MinusOne)
    /\ \E t \in 0..(hash_T(args) - 1) :
         /\ HashCapacity(args, t) > 0 /\ FullTable(t)
         /\ PositionsOfTable(args, t) # {})
(***************************************************************************)
(* split_embedding_forward_cpu_kernel: the parallel split of [0, T * B)    *)
(***************************************************************************)

MaxT == 3   \* tables
MaxB == 3   \* batch rows
MaxChunks == 4   \* chunks of one parallel_for, at most one for each thread

\* int t_begin = tb_begin / B;
t_begin(tb_begin, B) == tb_begin \div B

\* int t_end = (tb_end + B - 1) / B;
t_end(tb_end, B) == (tb_end + B - 1) \div B

\* int b_begin = (t == t_begin) ? tb_begin % B : 0;
b_begin(t, tb_begin, B) == IF t = t_begin(tb_begin, B) THEN tb_begin % B ELSE 0

b_end_unguarded(t, tb_end, B) ==
  IF t = t_end(tb_end, B) - 1 THEN tb_end % B ELSE B

\* int b_end = (t == t_end - 1 && tb_end % B != 0) ? tb_end % B : B;
b_end(t, tb_end, B) ==
  IF t = t_end(tb_end, B) - 1 /\ tb_end % B # 0 THEN tb_end % B ELSE B

\* The ways at::parallel_for can split [begin, end) into at most n
\* consecutive chunks <<tb_begin, tb_end>>, none of them empty.
RECURSIVE Chunkings(_, _, _)
Chunkings(begin, end, n) ==
  IF begin = end THEN {<<>>}
  ELSE IF n = 0 THEN {}
  ELSE UNION {{<<<<begin, mid>>>> \o rest : rest \in Chunkings(mid, end, n - 1)} :
                mid \in (begin + 1)..end}

\* The (table, batch row) pairs, each with one output segment
\* output[b][D_begin .. D_begin + D).
Pairs(T, B) == (0..(T - 1)) \X (0..(B - 1))

InitEmbedding ==
  /\ op = "split_embedding_forward_cpu_kernel"
  /\ \E T \in 1..MaxT, B \in 1..MaxB :
       /\ args \in {[T |-> T, B |-> B, chunks |-> c] : c \in Chunkings(0, T * B, MaxChunks)}
       /\ output_data = [p \in Pairs(T, B) |-> <<>>]
  /\ pc = [c \in DOMAIN args.chunks |-> t_begin(args.chunks[c][1], args.B)]
  /\ phase = "called"
  /\ ret = Pending
  /\ launch = NoLaunch
  /\ non_zero_counter = 0
  /\ kernel_args = <<>>
  /\ non_zero_idx = <<>>
  /\ output_memory = NoOutput
  /\ FBGEMM_AUTOTUNE_ENABLE = FALSE
  /\ cache = EmptyCache
  /\ calls = 1
  /\ history = <<>>
  /\ hash_table = <<>>

\* One iteration of the loop over t in the chunk c: the rows b_begin..b_end-1
\* of table t are pooled into their output segments.
split_embedding_forward_cpu_kernel(c) ==
  LET tb_begin == args.chunks[c][1]
      tb_end == args.chunks[c][2]
      t == pc[c]
  IN  /\ phase = "called" /\ op = "split_embedding_forward_cpu_kernel"
      /\ t < t_end(tb_end, args.B)
      /\ output_data' =
           [p \in DOMAIN output_data |->
              IF /\ p[1] = t
                 /\ b_begin(t, tb_begin, args.B) <= p[2]
                 /\ p[2] < b_end(t, tb_end, args.B)
              THEN Append(output_data[p], c)
              ELSE output_data[p]]
      /\ pc' = [pc EXCEPT ![c] = t + 1]
      /\ UNCHANGED <<op, args, phase, ret, FBGEMM_AUTOTUNE_ENABLE, cache, calls,
                     history, hash_table>>
      /\ UNCHANGED <<launch, non_zero_counter, kernel_args, non_zero_idx, output_memory>>

\* The chunk c has left its loop over t.
ChunkDone(c) == pc[c] >= t_end(args.chunks[c][2], args.B)

\* at::parallel_for returns when every chunk is done.
parallel_for_join ==
  /\ phase = "called" /\ op = "split_embedding_forward_cpu_kernel"
  /\ \A c \in DOMAIN args.chunks : ChunkDone(c)
  /\ phase' = "returned"
  /\ ret' = [status |-> "ok"]
  /\ UNCHANGED <<op, args, FBGEMM_AUTOTUNE_ENABLE, cache, calls, history>>
  /\ UNCHANGED embedding
  /\ UNCHANGED device

NextEmbedding ==
  \/ \E c \in DOMAIN args.chunks : split_embedding_forward_cpu_kernel(c)
  \/ parallel_for_join

SpecEmbedding == InitEmbedding /\ [][NextEmbedding]_vars

\* C30: the chunks [tb_begin, tb_end) partition the (table, batch row) pairs:
\* a pair (t, b) is processed by the chunk that holds t * B + b and by no
\* other, once, so no two chunks write the same output segment.
C30_ChunksPartitionPairs ==
  op = "split_embedding_forward_cpu_kernel" =>
    \A p \in DOMAIN output_data :
      LET tb == (p[1] * args.B) + p[2]
      IN  /\ Len(output_data[p]) <= 1
          /\ \A i \in DOMAIN output_data[p] :
                LET c == output_data[p][i]
                IN  args.chunks[c][1] <= tb /\ tb < args.chunks[c][2]
          /\ \A c \in DOMAIN args.chunks :
                (ChunkDone(c) /\ args.chunks[c][1] <= tb /\ tb < args.chunks[c][2])
                => output_data[p] = <<c>>

\* The call returned with every pair processed, from a chunking that has a
\* chunk ending inside a table, one ending at the end of a table that is not
\* the last, and one that spans more than one table.
C30_Witness ==
  /\ op = "split_embedding_forward_cpu_kernel" /\ phase = "returned"
  /\ args.T >= 2 /\ args.B >= 2
  /\ \A p \in DOMAIN output_data : Len(output_data[p]) = 1
  /\ \E c \in DOMAIN args.chunks : args.chunks[c][2] % args.B # 0
  /\ \E c \in DOMAIN args.chunks :
        args.chunks[c][2] % args.B = 0 /\ args.chunks[c][2] < args.T * args.B
  /\ \E c \in DOMAIN args.chunks :
        t_end(args.chunks[c][2], args.B) - t_begin(args.chunks[c][1], args.B) >= 2
====
